---------------------------- MODULE Spec2Model ----------------------------
(***************************************************************************)
(* Model of the resilient data-synchronization layer of the consent        *)
(* manager: the two-tier TTL cache (cacheData / getCachedData), the        *)
(* connection monitor (checkSupabaseConnection) and the orchestrator       *)
(* (ConsentimientosProvider: loadConsentimientos, its triggers,            *)
(* archivarConsentimiento).                                                *)
(*                                                                         *)
(* The specifications share the variables:                                 *)
(*   SpecCache    the cache store alone, driven by arbitrary callers;      *)
(*   SpecConn     the connection monitor alone, concurrent callers;        *)
(*   Spec         the provider: load cycles, their triggers and retries;   *)
(*   SpecOutage   the provider while the backend stays unreachable;        *)
(*   SpecArchive  the provider with archivarConsentimiento;                *)
(*   SpecRetry    the provider with the retry button;                      *)
(*   SpecWrites   the provider with one addConsentimiento or one           *)
(*                archivarConsentimiento call;                             *)
(*   SpecTeardown the provider unmounting during an outage;                *)
(*   SpecDelay    the background-retry delays (getRetryDelay);             *)
(*   SpecProbeWait the waits of the connection monitor's retry loop;       *)
(*   SpecSub      a realtime subscription and its reconnect probes;        *)
(*   SpecRows     transformarDatos on batches of raw rows;                 *)
(*   SpecOverlap  archivarConsentimiento calls that overlap.               *)
(* Time is in milliseconds, as Date.now() is.                              *)
(***************************************************************************)
EXTENDS Integers, Sequences, FiniteSets, TLC

\* ----------------------------------------------------------------- bounds
\* Record ids the backend may hold.
MaxRecords == 2
\* The clock stops advancing here (ms).
MaxNow == 20000
\* Invocations of loadConsentimientos that can be in flight together.
MaxCycles == 2
\* Background-retry timers that can be pending together.
MaxTimers == 2
\* archivarConsentimiento is not called once the archived list is this long.
MaxArchivedLen == 2
\* retryCount stops growing here in Spec,
MaxRetryCount == 2
\* and here in SpecOutage.
MaxOutageRetryCount == 16
\* Math.random() takes the values j / JitterSteps, j in 0 .. JitterSteps - 1.
JitterSteps == 4
\* Records addConsentimiento may add to those the backend holds at start.
MaxCreated == 1

\* -------------------------------------------------------- program constants
CONSENT_CACHE_KEY == "app_consents_data"
ARCHIVED_CONSENT_CACHE_KEY == "app_archived_consents_data"
\* checkSupabaseConnection: debounce window of the connection status (ms).
CACHE_TTL == 10000

Keys == {CONSENT_CACHE_KEY, ARCHIVED_CONSENT_CACHE_KEY}
Ids == 1..MaxRecords

\* Date.now() at start: far from the epoch, so the initial status
\* {isConnected: false, timestamp: 0} is outside the debounce window.
StartNow == CACHE_TTL
\* One step of the clock (ms).
TickMs == 5000

VARIABLES
    now,                  \* Date.now()
    internet,             \* environment: the well-known hosts answer
    backend,              \* environment: "up" | "down"
    localStorage,         \* persistent store: the two flags and the cache_ items
    dataCache,            \* in-process Map of the cache
    lastConnectionStatus, \* module-level {isConnected, timestamp}
    call,                 \* SpecConn: the checkSupabaseConnection calls in progress
    ret,                  \* SpecCache: the last cache operation and what it returned
    lastSet,              \* SpecCache: per key, the last cacheData call not yet overwritten
    \* ConsentimientosProvider (Spec)
    consentimientos,           \* useState: the active collection (record ids)
    consentimientosArchivados, \* useState: the archived collection
    loading,                   \* useState
    connectionError,           \* useState
    retryCount,                \* useState
    isRetrying,                \* useState
    loadCb,                    \* what the memoized loadConsentimientos closes over
    effect,                    \* the useEffect: its last dependencies, what it set up
    cycles,                    \* the loadConsentimientos invocations in flight
    timers,                    \* pending background-retry setTimeouts (their closures)
    arch,                      \* the archivarConsentimiento call in progress
    exhausted,                 \* history: the 5-minute interval was armed, and since
                               \* then no connectivity came back and no manual retry
    remote,                    \* the backend's consents table: active and archived ids
    lastEnd,                   \* how the load cycle that ended last ended
    add,                       \* the addConsentimiento call in progress
    delays,                    \* SpecDelay: the background-retry delays realized so far
    sub,                       \* SpecSub: a realtime subscription and its reconnect probes
    rows,                      \* SpecRows: a fetched batch of raw rows and its mapping
    archs                      \* SpecOverlap: the archivarConsentimiento calls in progress

reactVars == <<consentimientos, consentimientosArchivados, loading, connectionError,
               retryCount, isRetrying, loadCb>>
orchVars == <<consentimientos, consentimientosArchivados, loading, connectionError,
              retryCount, isRetrying, loadCb, effect, cycles, timers, remote, lastEnd, arch, exhausted>>
auxVars == <<add, delays, sub, rows, archs>>
vars == <<now, internet, backend, localStorage, dataCache, lastConnectionStatus,
          call, ret, lastSet, orchVars, auxVars>>

\* ------------------------------------------------------------ cache values
\* A cached value T | null: null, or an array of records (by id).
Null == [kind |-> "null", items |-> <<>>]
Arr(s) == [kind |-> "array", items |-> s]

\* CacheItem<T> {data, timestamp, expiry}; NoItem: Map.get / getItem found nothing.
NoItem == [kind |-> "none", data |-> Null, timestamp |-> 0, expiry |-> 0]
CacheItem(d, t, e) == [kind |-> "item", data |-> d, timestamp |-> t, expiry |-> e]

\* JSON.stringify of a CacheItem, and JSON.parse of a stored string: the string is
\* kept as the parsed structure tagged "json".
JSONstringify(item) == [item EXCEPT !.kind = "json"]
JSONparseThrows(raw) == raw.kind # "json"
JSONparse(raw) == [raw EXCEPT !.kind = "item"]

\* data === null || (Array.isArray(data) && data.length === 0)
IsEmptyOrNull(data) ==
    data.kind = "null" \/ (data.kind = "array" /\ Len(data.items) = 0)

\* cacheData: the in-process tier after the call.
cacheDataMem_NoGuard(dc, t, key, data, ttlSeconds) ==
    [dc EXCEPT ![key] = CacheItem(data, t, t + ttlSeconds * 1000)]
cacheDataMem(dc, t, key, data, ttlSeconds) ==
    IF IsEmptyOrNull(data) THEN dc
    ELSE [dc EXCEPT ![key] = CacheItem(data, t, t + ttlSeconds * 1000)]

\* cacheData: the durable tier after the call; setItemOk = FALSE is setItem
\* throwing (quota), which the catch swallows.
cacheDataLS(ls, t, key, data, ttlSeconds, setItemOk) ==
    IF IsEmptyOrNull(data) \/ ~setItemOk THEN ls
    ELSE [ls EXCEPT !.cache[key] =
              JSONstringify(CacheItem(data, t, t + ttlSeconds * 1000))]

\* getCachedData: which branch the read takes.
\*   "mem"      the in-process item is present and not expired
\*   "durable"  the stored item parses and is not expired (rehydrates)
\*   "expired"  the stored item parses and is expired (removed)
\*   "miss"     nothing stored, or JSON.parse threw
getBranch(dc, ls, t, key) ==
    LET item == dc[key]
        storedItem == ls.cache[key]
    IN  IF item.kind = "item" /\ t <= item.expiry THEN "mem"
        ELSE IF storedItem.kind = "none" THEN "miss"
        ELSE IF JSONparseThrows(storedItem) THEN "miss"
        ELSE IF t <= JSONparse(storedItem).expiry THEN "durable"
        ELSE "expired"

getCachedData(dc, ls, t, key) ==
    CASE getBranch(dc, ls, t, key) = "mem" -> dc[key].data
      [] getBranch(dc, ls, t, key) = "durable" -> JSONparse(ls.cache[key]).data
      [] OTHER -> Null

getCachedDataMem(dc, ls, t, key) ==
    IF getBranch(dc, ls, t, key) = "durable"
    THEN [dc EXCEPT ![key] = JSONparse(ls.cache[key])]
    ELSE dc

getCachedDataLS(dc, ls, t, key) ==
    IF getBranch(dc, ls, t, key) = "expired"
    THEN [ls EXCEPT !.cache[key] = NoItem]
    ELSE ls

\* clearCacheItem / clearCache
clearCacheItemMem(dc, key) == [dc EXCEPT ![key] = NoItem]
clearCacheItemLS(ls, key) == [ls EXCEPT !.cache[key] = NoItem]
clearCacheMem(dc) == [k \in Keys |-> NoItem]
clearCacheLS(ls) == [ls EXCEPT !.cache = [k \in Keys |-> NoItem]]

\* ------------------------------------------------------ connection monitor
\* RETRY_SETTINGS.maxRetries
RETRY_maxRetries == 10

\* Calls of checkSupabaseConnection that can be in progress together: one per
\* loadConsentimientos invocation, one for archivarConsentimiento and one for
\* addConsentimiento.
Slots == 1..MaxCycles
ArchCaller == MaxCycles + 1
AddCaller == MaxCycles + 2
Callers == 1..AddCaller

\* isOfflineMode
isOfflineMode(ls) == ls.app_offline_mode \/ ls.app_network_unreachable

\* checkInternetConnection: HEAD requests to testUrls in order, true at the first
\* that answers, false when all failed. A host answers iff the environment has
\* general connectivity.
testUrls == <<"gstatic", "apple", "cloudflare">>
headAnswers(url, inet) == inet
RECURSIVE tryUrls(_, _)
tryUrls(i, inet) ==
    IF i > Len(testUrls) THEN FALSE
    ELSE IF headAnswers(testUrls[i], inet) THEN TRUE
    ELSE tryUrls(i + 1, inet)
checkInternetConnection(inet) == tryUrls(1, inet)

\* How a request through the supabase client ends, as its caller sees it:
\*   "ok"     a response without error
\*   "error"  a response carrying an application-level error ({error})
\*   "abort"  the request timed out: AbortError is thrown
\*   "fail"   the network failed: TypeError is thrown
\* and "blocked": the client's fetch refused it because isOfflineMode() held when it
\* was issued (a plain Error is thrown, no request leaves).
RequestOutcomes(be) == IF be = "up" THEN {"ok", "error"} ELSE {"abort", "fail"}

\* The client's global fetch wrapper, on completion of a request: a response clears
\* app_network_unreachable, a timeout or network failure sets it.
fetchWrapperLS(ls, o) ==
    CASE o \in {"ok", "error"} -> [ls EXCEPT !.app_network_unreachable = FALSE]
      [] o \in {"abort", "fail"} -> [ls EXCEPT !.app_network_unreachable = TRUE]
      [] OTHER -> ls

\* toggleOfflineMode
toggleOfflineMode(ls, active) ==
    IF active THEN [ls EXCEPT !.app_offline_mode = TRUE]
    ELSE [ls EXCEPT !.app_offline_mode = FALSE, !.app_network_unreachable = FALSE]

\* checkSupabaseConnection, the synchronous prefix. Which way the call goes:
\*   "cached"   the last status is inside the debounce window
\*   "offline"  isOfflineMode() holds
\*   "probe"    the two-stage probe starts
ccBranch(st, ls, t) ==
    IF t - st.timestamp < CACHE_TTL THEN "cached"
    ELSE IF isOfflineMode(ls) THEN "offline"
    ELSE "probe"

Status(c, t) == [isConnected |-> c, timestamp |-> t]

\* A call of checkSupabaseConnection: where it is suspended, its locals (now,
\* currentRetry), what it returned, and what it did: probed (it issued a network
\* request), offlineAtStart (app_offline_mode was set when it was called).
IdleCall == [pc |-> "idle", now |-> 0, currentRetry |-> 0, result |-> "none",
             probed |-> FALSE, offlineAtStart |-> FALSE]
Returned(cl, b) == [cl EXCEPT !.pc = "idle", !.result = IF b THEN "true" ELSE "false"]

\* The call as it stands after the synchronous prefix, and the status it leaves.
ccStartCall(st, ls, t) ==
    LET br == ccBranch(st, ls, t)
        cl == [IdleCall EXCEPT !.now = t, !.offlineAtStart = ls.app_offline_mode]
    IN  CASE br = "cached" -> Returned(cl, st.isConnected)
          [] br = "offline" -> Returned(cl, FALSE)
          [] OTHER -> [cl EXCEPT !.pc = "internet", !.probed = TRUE]
ccStartStatus(st, ls, t) ==
    IF ccBranch(st, ls, t) = "offline" THEN Status(FALSE, t) ELSE st

\* The catch of the retry loop: count the attempt; give up at maxRetries.
ccCatchCall_Rethrow(cl) == [cl EXCEPT !.pc = "idle", !.result = "threw"]
ccCatchCall(cl) ==
    IF cl.currentRetry + 1 >= RETRY_maxRetries
    THEN Returned([cl EXCEPT !.currentRetry = @ + 1], FALSE)
    ELSE [cl EXCEPT !.currentRetry = @ + 1, !.pc = "sleep"]
ccCatchStatus(cl, st) ==
    IF cl.currentRetry + 1 >= RETRY_maxRetries THEN Status(FALSE, cl.now) ELSE st
ccCatchLS(cl, ls) ==
    IF cl.currentRetry + 1 >= RETRY_maxRetries
    THEN [ls EXCEPT !.app_network_unreachable = TRUE]
    ELSE ls

\* The attempt's request completed with outcome o (after the fetch wrapper ran).
ccAttemptCall(cl, o) ==
    CASE o = "ok" -> Returned(cl, TRUE)
      [] o = "error" -> Returned(cl, FALSE)
      [] OTHER -> ccCatchCall(cl)
ccAttemptStatus(cl, st, o) ==
    CASE o = "ok" -> Status(TRUE, cl.now)
      [] o = "error" -> Status(FALSE, cl.now)
      [] OTHER -> ccCatchStatus(cl, st)
ccAttemptLS(cl, ls, o) ==
    CASE o = "ok" -> [fetchWrapperLS(ls, o) EXCEPT !.app_offline_mode = FALSE,
                                                  !.app_network_unreachable = FALSE]
      [] o = "error" -> fetchWrapperLS(ls, o)
      [] OTHER -> ccCatchLS(cl, fetchWrapperLS(ls, o))

\* Issue the next attempt from call cl: in flight, or refused by the wrapper.
ccIssueCall(cl, ls) ==
    IF isOfflineMode(ls) THEN ccAttemptCall(cl, "blocked")
    ELSE [cl EXCEPT !.pc = "backend"]
ccIssueStatus(cl, st, ls) ==
    IF isOfflineMode(ls) THEN ccAttemptStatus(cl, st, "blocked") ELSE st
ccIssueLS(cl, ls) ==
    IF isOfflineMode(ls) THEN ccAttemptLS(cl, ls, "blocked") ELSE ls

\* A probing call run to its return while the environment stays as it is: the
\* internet stage, then the retry loop, every attempt that leaves ending with o.
\* The result is the call, the status and localStorage at the return.
RECURSIVE ccRun(_, _, _, _, _)
ccRun(cl, st, ls, inet, o) ==
    CASE cl.pc = "internet" ->
             IF ~checkInternetConnection(inet)
             THEN [call |-> Returned(cl, FALSE), status |-> Status(FALSE, cl.now),
                   ls |-> [ls EXCEPT !.app_network_unreachable = TRUE]]
             ELSE ccRun(ccIssueCall(cl, ls), ccIssueStatus(cl, st, ls),
                        ccIssueLS(cl, ls), inet, o)
      [] cl.pc = "backend" ->
             ccRun(ccAttemptCall(cl, o), ccAttemptStatus(cl, st, o),
                   ccAttemptLS(cl, ls, o), inet, o)
      [] cl.pc = "sleep" ->
             ccRun(ccIssueCall(cl, ls), ccIssueStatus(cl, st, ls),
                   ccIssueLS(cl, ls), inet, o)
      [] OTHER -> [call |-> cl, status |-> st, ls |-> ls]

\* ------------------------------------------- ConsentimientosProvider: state
MAX_RETRIES == 15
\* seconds
CONSENT_CACHE_TTL == 172800

\* An invocation of loadConsentimientos in flight: where it is suspended,
\* isManualRetry, the retryCount its closure holds, dataActivos once fetched.
\* Invocation k awaits call[k] of checkSupabaseConnection.
FreeCycle == [pc |-> "free", manual |-> FALSE, rc |-> 0, data |-> <<>>]

\* The dependencies of the useEffect that change: [loadConsentimientos,
\* connectionError, retryCount, MAX_RETRIES, isRetrying]; loadConsentimientos is
\* a new function exactly when retryCount changed.
Deps(ce, rc, ir) == [connectionError |-> ce, retryCount |-> rc, isRetrying |-> ir]

\* How the last invocation of loadConsentimientos ended: how, and for an error the
\* fetch that failed and the outcome of its request.
NoEnd == [how |-> "none", leg |-> "none", outcome |-> "none"]
Ended(how, leg, o) == [how |-> how, leg |-> leg, outcome |-> o]

\* archivarConsentimiento: where the call is suspended, its argument, the
\* collections its closure holds, the error it is about to throw, its outcome.
IdleArch == [pc |-> "idle", id |-> 0, activos |-> <<>>, archivados |-> <<>>,
             error |-> "none", result |-> "none"]

\* addConsentimiento: where the call is suspended, the id the backend gave the
\* record (0: none yet), the error it is about to throw, its outcome.
IdleAdd == [pc |-> "idle", id |-> 0, error |-> "none", result |-> "none"]

\* The background-retry delays: the attempt the next one is computed for, and the
\* last two delays realized (ms), the latest last.
NoDelays == [attempt |-> 0, realized |-> <<>>]
\* Calls of archivarConsentimiento that can be in progress together.
MaxOverlap == 2
\* One of them: where it is suspended, its argument, the collections its closure
\* holds, its call of checkSupabaseConnection, the error it is about to throw, its
\* outcome; during: the calls that were in progress when it started.
IdleOv == [pc |-> "idle", id |-> 0, activos |-> <<>>, archivados |-> <<>>,
           check |-> IdleCall, error |-> "none", result |-> "none", during |-> {}]
\* No batch of raw rows has been handed to transformarDatos.
NoRows == [pc |-> "none", data |-> <<>>, out |-> <<>>]
\* No subscription created; t: time since the page loaded (ms), timers: the due
\* times of the pending reconnect setTimeouts, probes: reconnect probes in flight,
\* calls: invocations of the callback by reconnect probes, late: one of them came
\* after unsubscribe().
IdleSub == [phase |-> "none", t |-> 0, timers |-> <<>>, probes |-> 0, calls |-> 0,
            late |-> FALSE]

\* The provider is not mounted (SpecCache, SpecConn).
OrchIdle ==
    /\ consentimientos = <<>>
    /\ consentimientosArchivados = <<>>
    /\ loading = TRUE
    /\ connectionError = FALSE
    /\ retryCount = 0
    /\ isRetrying = FALSE
    /\ loadCb = [retryCount |-> 0, isRetrying |-> FALSE]
    /\ effect = [ran |-> TRUE, deps |-> Deps(FALSE, 0, FALSE), interval |-> FALSE,
                 mounted |-> FALSE]
    /\ cycles = [k \in Slots |-> FreeCycle]
    /\ timers = <<>>
    /\ remote = [active |-> {}, archived |-> {}]
    /\ lastEnd = NoEnd
    /\ arch = IdleArch
    /\ exhausted = FALSE
    /\ add = IdleAdd
    /\ delays = NoDelays
    /\ sub = IdleSub
    /\ rows = NoRows
    /\ archs = [n \in 1..MaxOverlap |-> IdleOv]

\* The effect of the last render has run: nothing else runs before it has.
Settled == effect.ran /\ effect.deps = Deps(connectionError, retryCount, isRetrying)

\* ------------------------------------------------------------ initial state
LibInit ==
    /\ now = StartNow
    /\ localStorage = [app_offline_mode |-> FALSE, app_network_unreachable |-> FALSE,
                       cache |-> [k \in Keys |-> NoItem]]
    /\ dataCache = [k \in Keys |-> NoItem]
    /\ lastConnectionStatus = Status(FALSE, 0)

NoRet == [op |-> "none", key |-> CONSENT_CACHE_KEY, arg |-> Null, result |-> Null]
NoSet == [live |-> FALSE, data |-> Null, expiry |-> 0]

\* Time passes.
Tick ==
    /\ UNCHANGED auxVars
    /\ Settled
    /\ now + TickMs <= MaxNow
    /\ now' = now + TickMs
    /\ UNCHANGED <<internet, backend, localStorage, dataCache, lastConnectionStatus,
                   call, ret, lastSet>>
    /\ UNCHANGED orchVars

\* -------------------------------------------------- SpecCache: the cache store
\* ttlSeconds the callers pass.
TtlChoices == {5, 10}
\* Values the callers pass.
CacheInputs == {Null, Arr(<<>>), Arr(<<1>>), Arr(<<2, 1>>)}

CacheSet(key, data, ttlSeconds, setItemOk) ==
    /\ UNCHANGED auxVars
    /\ dataCache' = cacheDataMem(dataCache, now, key, data, ttlSeconds)
    /\ localStorage' = cacheDataLS(localStorage, now, key, data, ttlSeconds, setItemOk)
    /\ ret' = [op |-> "set", key |-> key, arg |-> data, result |-> Null]
    /\ lastSet' = IF data.kind = "array" /\ Len(data.items) > 0
                  THEN [lastSet EXCEPT ![key] = [live |-> TRUE, data |-> data,
                                                 expiry |-> now + ttlSeconds * 1000]]
                  ELSE lastSet
    /\ UNCHANGED <<now, internet, backend, lastConnectionStatus, call>>
    /\ UNCHANGED orchVars

CacheGet(key) ==
    /\ UNCHANGED auxVars
    /\ dataCache' = getCachedDataMem(dataCache, localStorage, now, key)
    /\ localStorage' = getCachedDataLS(dataCache, localStorage, now, key)
    /\ ret' = [op |-> "get", key |-> key, arg |-> Null,
               result |-> getCachedData(dataCache, localStorage, now, key)]
    /\ UNCHANGED <<now, internet, backend, lastConnectionStatus, call, lastSet>>
    /\ UNCHANGED orchVars

CacheDelete(key) ==
    /\ UNCHANGED auxVars
    /\ dataCache' = clearCacheItemMem(dataCache, key)
    /\ localStorage' = clearCacheItemLS(localStorage, key)
    /\ ret' = [NoRet EXCEPT !.op = "delete", !.key = key]
    /\ lastSet' = [lastSet EXCEPT ![key] = NoSet]
    /\ UNCHANGED <<now, internet, backend, lastConnectionStatus, call>>
    /\ UNCHANGED orchVars

CacheClear ==
    /\ UNCHANGED auxVars
    /\ dataCache' = clearCacheMem(dataCache)
    /\ localStorage' = clearCacheLS(localStorage)
    /\ ret' = [NoRet EXCEPT !.op = "clear"]
    /\ lastSet' = [k \in Keys |-> NoSet]
    /\ UNCHANGED <<now, internet, backend, lastConnectionStatus, call>>
    /\ UNCHANGED orchVars

\* The page is loaded anew: the in-process Map starts empty, localStorage stays.
Reload ==
    /\ UNCHANGED auxVars
    /\ dataCache' = [k \in Keys |-> NoItem]
    /\ ret' = [NoRet EXCEPT !.op = "reload"]
    /\ lastSet' = [k \in Keys |-> NoSet]
    /\ UNCHANGED <<now, internet, backend, localStorage, lastConnectionStatus, call>>
    /\ UNCHANGED orchVars

InitCache ==
    /\ LibInit
    /\ internet = TRUE
    /\ backend = "up"
    /\ call = [c \in Callers |-> IdleCall]
    /\ ret = NoRet
    /\ lastSet = [k \in Keys |-> NoSet]
    /\ OrchIdle

NextCache ==
    \/ \E key \in Keys, data \in CacheInputs, ttl \in TtlChoices, ok \in BOOLEAN :
           CacheSet(key, data, ttl, ok)
    \/ \E key \in Keys : CacheGet(key)
    \/ \E key \in Keys : CacheDelete(key)
    \/ CacheClear
    \/ Reload
    \/ Tick

SpecCache == InitCache /\ [][NextCache]_vars

\* ------------------------------------------- SpecConn: the connection monitor
\* checkSupabaseConnection is called: the synchronous prefix, up to the first await.
CallStart(c) ==
    /\ UNCHANGED auxVars
    /\ call[c].pc = "idle"
    /\ call' = [call EXCEPT ![c] = ccStartCall(lastConnectionStatus, localStorage, now)]
    /\ lastConnectionStatus' = ccStartStatus(lastConnectionStatus, localStorage, now)
    /\ UNCHANGED <<now, internet, backend, localStorage, dataCache, ret, lastSet>>
    /\ UNCHANGED orchVars

\* checkInternetConnection resolved.
CallInternet(c) ==
    /\ UNCHANGED auxVars
    /\ Settled
    /\ call[c].pc = "internet"
    /\ IF ~checkInternetConnection(internet)
       THEN /\ localStorage' = [localStorage EXCEPT !.app_network_unreachable = TRUE]
            /\ lastConnectionStatus' = Status(FALSE, call[c].now)
            /\ call' = [call EXCEPT ![c] = Returned(@, FALSE)]
       ELSE /\ localStorage' = ccIssueLS(call[c], localStorage)
            /\ lastConnectionStatus' =
                   ccIssueStatus(call[c], lastConnectionStatus, localStorage)
            /\ call' = [call EXCEPT ![c] = ccIssueCall(@, localStorage)]
    /\ UNCHANGED <<now, internet, backend, dataCache, ret, lastSet>>
    /\ UNCHANGED orchVars

\* The backend probe attempt in flight completed.
CallBackend(c, o) ==
    /\ UNCHANGED auxVars
    /\ Settled
    /\ call[c].pc = "backend"
    /\ o \in RequestOutcomes(backend)
    /\ localStorage' = ccAttemptLS(call[c], localStorage, o)
    /\ lastConnectionStatus' = ccAttemptStatus(call[c], lastConnectionStatus, o)
    /\ call' = [call EXCEPT ![c] = ccAttemptCall(@, o)]
    /\ UNCHANGED <<now, internet, backend, dataCache, ret, lastSet>>
    /\ UNCHANGED orchVars

\* sleep(delay) ended: the next attempt is issued.
CallWake(c) ==
    /\ UNCHANGED auxVars
    /\ Settled
    /\ call[c].pc = "sleep"
    /\ localStorage' = ccIssueLS(call[c], localStorage)
    /\ lastConnectionStatus' = ccIssueStatus(call[c], lastConnectionStatus, localStorage)
    /\ call' = [call EXCEPT ![c] = ccIssueCall(@, localStorage)]
    /\ UNCHANGED <<now, internet, backend, dataCache, ret, lastSet>>
    /\ UNCHANGED orchVars

ToggleOfflineMode(active) ==
    /\ UNCHANGED auxVars
    /\ Settled
    /\ localStorage' = toggleOfflineMode(localStorage, active)
    /\ UNCHANGED <<now, internet, backend, dataCache, lastConnectionStatus, call, ret,
                   lastSet>>
    /\ UNCHANGED orchVars

EnvInternet ==
    /\ UNCHANGED auxVars
    /\ Settled
    /\ internet' = ~internet
    /\ UNCHANGED <<now, backend, localStorage, dataCache, lastConnectionStatus, call,
                   ret, lastSet>>
    /\ UNCHANGED orchVars

EnvBackend ==
    /\ UNCHANGED auxVars
    /\ Settled
    /\ backend' = IF backend = "up" THEN "down" ELSE "up"
    /\ UNCHANGED <<now, internet, localStorage, dataCache, lastConnectionStatus, call,
                   ret, lastSet>>
    /\ UNCHANGED orchVars

InitConn ==
    /\ LibInit
    /\ internet \in BOOLEAN
    /\ backend \in {"up", "down"}
    /\ call = [c \in Callers |-> IdleCall]
    /\ ret = NoRet
    /\ lastSet = [k \in Keys |-> NoSet]
    /\ OrchIdle

NextConn ==
    \/ \E c \in Slots : CallStart(c)
    \/ \E c \in Callers : CallInternet(c)
    \/ \E c \in Callers, o \in {"ok", "error", "abort", "fail"} : CallBackend(c, o)
    \/ \E c \in Callers : CallWake(c)
    \/ \E active \in BOOLEAN : ToggleOfflineMode(active)
    \/ EnvInternet
    \/ EnvBackend
    \/ Tick

SpecConn == InitConn /\ [][NextConn]_vars

\* ------------------------------------- Spec: the provider on top of both
\* cached?.length > 0
NonEmpty_Never(d) == FALSE
NonEmpty(d) == d.kind = "array" /\ Len(d.items) > 0
Has(list, id) == \E n \in 1..Len(list) : list[n] = id
Without(list, id) == SelectSeq(list, LAMBDA x : x # id)

FreeSlots == {k \in Slots : cycles[k].pc = "free"}
InFlight == {k \in Slots : cycles[k].pc # "free"}

\* The state a handler has set when it calls loadConsentimientos.
Pre == [loading |-> loading, connectionError |-> connectionError,
        retryCount |-> retryCount, isRetrying |-> isRetrying]

\* The render after a handler: useCallback(..., [retryCount, ...]) keeps the old
\* loadConsentimientos unless retryCount changed; a new one closes over the
\* retryCount and the isRetrying of that render.
Commit ==
    loadCb' = IF retryCount' # retryCount
              THEN [retryCount |-> retryCount', isRetrying |-> isRetrying']
              ELSE loadCb

\* if (isRetrying && !isManualRetry) return;  isRetrying is the closure's.
PassesGuard(cb, manual) == ~(cb.isRetrying /\ ~manual)

\* The backend's rows of one partition, .order('created_at', {ascending: false});
\* ids are given in creation order.
RECURSIVE Descending(_)
Descending(S) ==
    IF S = {} THEN <<>>
    ELSE LET m == CHOOSE x \in S : \A y \in S : y <= x
         IN  <<m>> \o Descending(S \ {m})
Row(i) == [id |-> i, client_info |-> "object"]
selectConsents(archived) ==
    LET ids == Descending(IF archived THEN remote.archived ELSE remote.active)
    IN  [n \in 1..Len(ids) |-> Row(ids[n])]

\* The mapping without its per-row try/catch: one row that throws loses the batch.
transformarDatos_NoCatch(data) ==
    IF \E n \in 1..Len(data) : data[n].client_info = "null" THEN <<>>
    ELSE [n \in 1..Len(data) |-> data[n].id]

\* transformarDatos: a row whose client_info cannot be read is dropped.
RECURSIVE transformarDatos(_)
transformarDatos(data) ==
    IF Len(data) = 0 THEN <<>>
    ELSE IF Head(data).client_info = "null" THEN transformarDatos(Tail(data))
    ELSE <<Head(data).id>> \o transformarDatos(Tail(data))

\* The catch of the archived fetch (catch (archivedError)), by what was thrown:
\*   "partial"         the AbortError branch publishes and caches the active list
\*   "ReferenceError"  the AbortError branch calls transformarDatos, a const of the
\*                     try block, out of its scope
\*   "rethrow"         throw archivedError
transformarDatosScope == "try"
archivedCatch_Partial(o) == "partial"
archivedCatch(o) ==
    IF o = "abort"
    THEN IF transformarDatosScope = "catch" THEN "partial" ELSE "ReferenceError"
    ELSE "rethrow"

\* loadConsentimientos is called from a handler that has set the state to pre: the
\* guard, then the synchronous part up to the await of the connection check. An
\* invocation that finds no free slot (MaxCycles) is not followed further: it stays
\* at that await.
LoadInvoke(cb, manual, pre) ==
    IF PassesGuard(cb, manual)
    THEN LET r1 == getCachedData(dataCache, localStorage, now, CONSENT_CACHE_KEY)
             dc1 == getCachedDataMem(dataCache, localStorage, now, CONSENT_CACHE_KEY)
             ls1 == getCachedDataLS(dataCache, localStorage, now, CONSENT_CACHE_KEY)
             r2 == getCachedData(dc1, ls1, now, ARCHIVED_CONSENT_CACHE_KEY)
             dc2 == getCachedDataMem(dc1, ls1, now, ARCHIVED_CONSENT_CACHE_KEY)
             ls2 == getCachedDataLS(dc1, ls1, now, ARCHIVED_CONSENT_CACHE_KEY)
         IN  /\ isRetrying' = TRUE
             /\ loading' = IF manual THEN TRUE ELSE pre.loading
             /\ connectionError' = pre.connectionError
             /\ retryCount' = pre.retryCount
             /\ consentimientos' = IF NonEmpty(r1) THEN r1.items ELSE consentimientos
             /\ consentimientosArchivados' =
                    IF NonEmpty(r2) THEN r2.items ELSE consentimientosArchivados
             /\ dataCache' = dc2
             /\ localStorage' = ls2
             /\ lastConnectionStatus' = ccStartStatus(lastConnectionStatus, ls2, now)
             /\ IF FreeSlots # {}
                THEN LET k == CHOOSE x \in FreeSlots : \A y \in FreeSlots : x <= y
                     IN  /\ call' = [call EXCEPT ![k] =
                                ccStartCall(lastConnectionStatus, ls2, now)]
                         /\ cycles' = [cycles EXCEPT ![k] =
                                [pc |-> "check", manual |-> manual,
                                 rc |-> cb.retryCount, data |-> <<>>]]
                ELSE UNCHANGED <<call, cycles>>
    ELSE /\ isRetrying' = pre.isRetrying
         /\ loading' = pre.loading
         /\ connectionError' = pre.connectionError
         /\ retryCount' = pre.retryCount
         /\ UNCHANGED <<consentimientos, consentimientosArchivados, dataCache,
                        localStorage, lastConnectionStatus, call, cycles>>

\* The useEffect runs (mount, or a dependency changed): the previous cleanup
\* (clearInterval, the listeners removed), then loadConsentimientos(), the periodic
\* reconnection interval, the online listener.
EffectRun ==
    /\ UNCHANGED auxVars
    /\ ~Settled
    /\ LoadInvoke(loadCb, FALSE, Pre)
    /\ effect' = [ran |-> TRUE,
                  deps |-> Deps(connectionError, retryCount, isRetrying),
                  interval |-> connectionError /\ retryCount >= MAX_RETRIES,
                  mounted |-> effect.mounted]
    /\ exhausted' = (exhausted \/ (connectionError /\ retryCount >= MAX_RETRIES))
    /\ Commit
    /\ UNCHANGED <<now, internet, backend, ret, lastSet, timers, remote, lastEnd, arch>>

\* The probe sequence of call c runs to its return (Spec takes it in one step: the
\* environment does not change while a probe sequence runs).
CallProbe(c, o) ==
    /\ UNCHANGED auxVars
    /\ Settled
    /\ call[c].pc = "internet"
    /\ o \in RequestOutcomes(backend)
    /\ LET r == ccRun(call[c], lastConnectionStatus, localStorage, internet, o)
       IN  /\ call' = [call EXCEPT ![c] = [IdleCall EXCEPT !.result = r.call.result]]
           /\ lastConnectionStatus' = r.status
           /\ localStorage' = r.ls
    /\ UNCHANGED <<now, internet, backend, dataCache, ret, lastSet, orchVars>>

\* The outermost catch and the finally of loadConsentimientos, for invocation k.
\* dc, ls, activos: the cache and the active collection as the failed leg left them.
CatchAll(k, dc, ls, activos, leg, o) ==
    LET r1 == getCachedData(dc, ls, now, CONSENT_CACHE_KEY)
        dc1 == getCachedDataMem(dc, ls, now, CONSENT_CACHE_KEY)
        ls1 == getCachedDataLS(dc, ls, now, CONSENT_CACHE_KEY)
        r2 == getCachedData(dc1, ls1, now, ARCHIVED_CONSENT_CACHE_KEY)
        dc2 == getCachedDataMem(dc1, ls1, now, ARCHIVED_CONSENT_CACHE_KEY)
        ls2 == getCachedDataLS(dc1, ls1, now, ARCHIVED_CONSENT_CACHE_KEY)
    IN  /\ connectionError' = TRUE
        /\ consentimientos' = IF NonEmpty(r1) THEN r1.items ELSE activos
        /\ consentimientosArchivados' =
               IF NonEmpty(r2) THEN r2.items ELSE consentimientosArchivados
        /\ dataCache' = dc2
        /\ localStorage' = ls2
        /\ loading' = FALSE
        /\ isRetrying' = FALSE
        /\ cycles' = [cycles EXCEPT ![k] = FreeCycle]
        /\ call' = [call EXCEPT ![k] = IdleCall]
        /\ lastEnd' = Ended("error", leg, o)

\* The connection check of invocation k has returned (Promise.race): the
\* disconnected branch, or the connected branch up to the await of the active fetch.
LoadChecked(k) ==
    /\ UNCHANGED auxVars
    /\ Settled
    /\ cycles[k].pc = "check" /\ call[k].pc = "idle"
    /\ IF call[k].result # "true"
       THEN /\ connectionError' = TRUE
            /\ IF cycles[k].rc < MAX_RETRIES /\ ~cycles[k].manual
               THEN /\ Len(timers) < MaxTimers
                    /\ retryCount' = retryCount + 1
                    /\ timers' = Append(timers, [retryCount |-> cycles[k].rc])
               ELSE /\ retryCount' = IF cycles[k].manual THEN 0 ELSE retryCount
                    /\ timers' = timers
            /\ loading' = FALSE
            /\ isRetrying' = FALSE
            /\ cycles' = [cycles EXCEPT ![k] = FreeCycle]
            /\ call' = [call EXCEPT ![k] = IdleCall]
            /\ lastEnd' = Ended("disconnected", "none", "none")
            /\ UNCHANGED <<consentimientos, consentimientosArchivados, dataCache,
                           localStorage>>
       ELSE /\ retryCount' = 0
            /\ timers' = timers
            /\ IF isOfflineMode(localStorage)
               THEN CatchAll(k, dataCache, localStorage, consentimientos, "activos", "blocked")
               ELSE /\ connectionError' = FALSE
                    /\ cycles' = [cycles EXCEPT ![k].pc = "activos"]
                    /\ UNCHANGED <<consentimientos, consentimientosArchivados,
                                   dataCache, localStorage, loading, isRetrying,
                                   call, lastEnd>>
    /\ Commit
    /\ UNCHANGED <<now, internet, backend, lastConnectionStatus, ret, lastSet,
                   effect, remote, arch, exhausted>>

\* The active fetch of invocation k completed; on success the archived fetch is
\* issued.
LoadActivos(k, o) ==
    /\ UNCHANGED auxVars
    /\ Settled
    /\ cycles[k].pc = "activos"
    /\ o \in RequestOutcomes(backend)
    /\ LET ls == fetchWrapperLS(localStorage, o)
       IN  IF o = "ok" /\ ~isOfflineMode(ls)
           THEN /\ cycles' = [cycles EXCEPT ![k].pc = "archivados",
                                            ![k].data = selectConsents(FALSE)]
                /\ localStorage' = ls
                /\ UNCHANGED <<consentimientos, consentimientosArchivados, dataCache,
                               loading, connectionError, isRetrying, call, lastEnd>>
           ELSE IF o = "ok"
           THEN CatchAll(k, dataCache, ls, consentimientos, "archivados", "blocked")
           ELSE CatchAll(k, dataCache, ls, consentimientos, "activos", o)
    /\ retryCount' = retryCount
    /\ Commit
    /\ UNCHANGED <<now, internet, backend, lastConnectionStatus, ret, lastSet,
                   effect, timers, remote, arch, exhausted>>

\* The archived fetch of invocation k completed; setItemOk: localStorage.setItem
\* does not throw in cacheData.
LoadArchivados(k, o, setItemOk) ==
    /\ UNCHANGED auxVars
    /\ Settled
    /\ cycles[k].pc = "archivados"
    /\ o \in RequestOutcomes(backend)
    /\ LET ls == fetchWrapperLS(localStorage, o)
           activos == transformarDatos(cycles[k].data)
           archivados == transformarDatos(selectConsents(TRUE))
           dc1 == cacheDataMem(dataCache, now, CONSENT_CACHE_KEY, Arr(activos),
                               CONSENT_CACHE_TTL)
           ls1 == cacheDataLS(ls, now, CONSENT_CACHE_KEY, Arr(activos),
                              CONSENT_CACHE_TTL, setItemOk)
       IN  CASE o = "ok" ->
                /\ dataCache' = cacheDataMem(dc1, now, ARCHIVED_CONSENT_CACHE_KEY,
                                             Arr(archivados), CONSENT_CACHE_TTL)
                /\ localStorage' = cacheDataLS(ls1, now, ARCHIVED_CONSENT_CACHE_KEY,
                                               Arr(archivados), CONSENT_CACHE_TTL,
                                               setItemOk)
                /\ consentimientos' = activos
                /\ consentimientosArchivados' = archivados
                /\ loading' = FALSE
                /\ isRetrying' = FALSE
                /\ cycles' = [cycles EXCEPT ![k] = FreeCycle]
                /\ call' = [call EXCEPT ![k] = IdleCall]
                /\ lastEnd' = Ended("ok", "none", "ok")
                /\ UNCHANGED connectionError
             [] o # "ok" /\ archivedCatch(o) = "partial" ->
                CatchAll(k, dc1, ls1, activos, "archivados", o)
             [] OTHER ->
                CatchAll(k, dataCache, ls, consentimientos, "archivados", o)
    /\ retryCount' = retryCount
    /\ Commit
    /\ UNCHANGED <<now, internet, backend, lastConnectionStatus, ret, lastSet,
                   effect, timers, remote, arch, exhausted>>

\* A background-retry setTimeout fires: setIsRetrying(false); loadConsentimientos()
\* of the closure that scheduled it.
TimerFire(i) ==
    /\ UNCHANGED auxVars
    /\ Settled
    /\ i \in 1..Len(timers)
    /\ LoadInvoke([retryCount |-> timers[i].retryCount, isRetrying |-> FALSE], FALSE,
                  [Pre EXCEPT !.isRetrying = FALSE])
    /\ timers' = [n \in 1..(Len(timers) - 1) |-> IF n < i THEN timers[n] ELSE timers[n + 1]]
    /\ Commit
    /\ UNCHANGED <<now, internet, backend, ret, lastSet, effect, remote, lastEnd, arch,
                   exhausted>>

\* The 5-minute reconnection interval fires.
IntervalFire ==
    /\ UNCHANGED auxVars
    /\ Settled
    /\ effect.interval
    /\ LoadInvoke(loadCb, FALSE, [Pre EXCEPT !.retryCount = 0, !.isRetrying = FALSE])
    /\ Commit
    /\ UNCHANGED <<now, internet, backend, ret, lastSet, effect, timers, remote,
                   lastEnd, arch, exhausted>>

\* The browser regains the network: the 'online' listener (handleOnline).
EnvOnline ==
    /\ UNCHANGED auxVars
    /\ Settled
    /\ ~internet
    /\ internet' = TRUE
    /\ LoadInvoke(loadCb, FALSE, [Pre EXCEPT !.retryCount = 0, !.isRetrying = FALSE])
    /\ exhausted' = FALSE
    /\ Commit
    /\ UNCHANGED <<now, backend, ret, lastSet, effect, timers, remote, lastEnd, arch>>

\* The browser loses the network.
EnvOffline ==
    /\ UNCHANGED auxVars
    /\ Settled
    /\ internet
    /\ internet' = FALSE
    /\ UNCHANGED <<now, backend, localStorage, dataCache, lastConnectionStatus, call,
                   ret, lastSet, orchVars>>

\* The backend goes down or comes back.
EnvBackendFlip ==
    /\ UNCHANGED auxVars
    /\ Settled
    /\ backend' = IF backend = "up" THEN "down" ELSE "up"
    /\ exhausted' = (exhausted /\ backend = "up")
    /\ UNCHANGED <<now, internet, localStorage, dataCache, lastConnectionStatus, call,
                   ret, lastSet, reactVars, effect, cycles, timers, remote, lastEnd,
                   arch>>

\* retryConnection (the retry button): setRetryCount(0), setConnectionError(false),
\* loadConsentimientos(true).
RetryConnection_NoReset ==
    /\ UNCHANGED auxVars
    /\ Settled
    /\ LoadInvoke(loadCb, TRUE, Pre)
    /\ exhausted' = FALSE
    /\ Commit
    /\ UNCHANGED <<now, internet, backend, ret, lastSet, effect, timers, remote,
                   lastEnd, arch>>
RetryConnection ==
    /\ UNCHANGED auxVars
    /\ Settled
    /\ LoadInvoke(loadCb, TRUE, [Pre EXCEPT !.retryCount = 0, !.connectionError = FALSE])
    /\ exhausted' = FALSE
    /\ Commit
    /\ UNCHANGED <<now, internet, backend, ret, lastSet, effect, timers, remote,
                   lastEnd, arch>>

\* getConsentimiento, over the collections a closure holds.
getConsentimiento(activos, archivados, id) == Has(activos, id) \/ Has(archivados, id)

\* archivarConsentimiento(id) is called: up to the await of the connection check.
ArchiveCall(id) ==
    /\ UNCHANGED auxVars
    /\ Settled
    /\ arch.pc = "idle"
    /\ arch' = [pc |-> "check", id |-> id, activos |-> consentimientos,
                archivados |-> consentimientosArchivados, error |-> "none",
                result |-> "none"]
    /\ call' = [call EXCEPT ![ArchCaller] =
                   ccStartCall(lastConnectionStatus, localStorage, now)]
    /\ lastConnectionStatus' = ccStartStatus(lastConnectionStatus, localStorage, now)
    /\ UNCHANGED <<now, internet, backend, localStorage, dataCache, ret, lastSet,
                   reactVars, effect, cycles, timers, remote, lastEnd, exhausted>>

\* The catch of archivarConsentimiento: up to the await of the second check.
ArchiveCatch(error) ==
    /\ arch' = [arch EXCEPT !.pc = "recheck", !.error = error]
    /\ call' = [call EXCEPT ![ArchCaller] =
                   ccStartCall(lastConnectionStatus, localStorage', now)]
    /\ lastConnectionStatus' = ccStartStatus(lastConnectionStatus, localStorage', now)

\* The first check returned: not connected throws; otherwise the local update
\* (both collections, both cache keys) and the rpc is issued.
ArchiveChecked(setItemOk) ==
    /\ UNCHANGED auxVars
    /\ Settled
    /\ arch.pc = "check" /\ call[ArchCaller].pc = "idle"
    /\ IF call[ArchCaller].result # "true"
       THEN /\ arch' = [IdleArch EXCEPT !.id = arch.id, !.result = "not-connected"]
            /\ call' = [call EXCEPT ![ArchCaller] = IdleCall]
            /\ UNCHANGED <<consentimientos, consentimientosArchivados, dataCache,
                           localStorage, lastConnectionStatus>>
       ELSE IF ~getConsentimiento(arch.activos, arch.archivados, arch.id)
       THEN /\ localStorage' = localStorage
            /\ ArchiveCatch("not-found")
            /\ UNCHANGED <<consentimientos, consentimientosArchivados, dataCache>>
       ELSE LET nuevosActivos == Without(arch.activos, arch.id)
                nuevosArchivados == <<arch.id>> \o arch.archivados
                dc1 == cacheDataMem(dataCache, now, CONSENT_CACHE_KEY,
                                    Arr(nuevosActivos), CONSENT_CACHE_TTL)
                ls1 == cacheDataLS(localStorage, now, CONSENT_CACHE_KEY,
                                   Arr(nuevosActivos), CONSENT_CACHE_TTL, setItemOk)
            IN  /\ consentimientos' = nuevosActivos
                /\ consentimientosArchivados' = nuevosArchivados
                /\ dataCache' = cacheDataMem(dc1, now, ARCHIVED_CONSENT_CACHE_KEY,
                                             Arr(nuevosArchivados), CONSENT_CACHE_TTL)
                /\ localStorage' = cacheDataLS(ls1, now, ARCHIVED_CONSENT_CACHE_KEY,
                                               Arr(nuevosArchivados), CONSENT_CACHE_TTL,
                                               setItemOk)
                /\ IF isOfflineMode(localStorage)
                   THEN ArchiveCatch("blocked")
                   ELSE /\ arch' = [arch EXCEPT !.pc = "rpc"]
                        /\ UNCHANGED <<call, lastConnectionStatus>>
    /\ UNCHANGED <<now, internet, backend, ret, lastSet, loading, connectionError,
                   retryCount, isRetrying, loadCb, effect, cycles, timers, remote,
                   lastEnd, exhausted>>

\* The rpc archivar_consentimiento completed; applied: the backend ran it (always
\* when it answered ok, possibly when the client gave up waiting).
ArchiveRpc(o, applied) ==
    /\ UNCHANGED auxVars
    /\ Settled
    /\ arch.pc = "rpc"
    /\ o \in RequestOutcomes(backend)
    /\ applied = IF o = "abort" THEN applied ELSE (o = "ok")
    /\ remote' = IF applied /\ arch.id \in remote.active
                 THEN [active |-> remote.active \ {arch.id},
                       archived |-> remote.archived \cup {arch.id}]
                 ELSE remote
    /\ localStorage' = fetchWrapperLS(localStorage, o)
    /\ IF o = "ok"
       THEN /\ arch' = [IdleArch EXCEPT !.id = arch.id, !.result = "ok"]
            /\ UNCHANGED <<call, lastConnectionStatus>>
       ELSE ArchiveCatch(IF o = "abort" THEN "timeout" ELSE "error")
    /\ UNCHANGED <<now, internet, backend, dataCache, ret, lastSet, reactVars, effect,
                   cycles, timers, lastEnd, exhausted>>

\* The second check returned: setConnectionError(true) when not connected, and the
\* error is thrown to the caller.
ArchiveRechecked ==
    /\ UNCHANGED auxVars
    /\ Settled
    /\ arch.pc = "recheck" /\ call[ArchCaller].pc = "idle"
    /\ connectionError' = (connectionError \/ call[ArchCaller].result # "true")
    /\ arch' = [IdleArch EXCEPT !.id = arch.id, !.result = arch.error]
    /\ call' = [call EXCEPT ![ArchCaller] = IdleCall]
    /\ UNCHANGED <<now, internet, backend, localStorage, dataCache,
                   lastConnectionStatus, ret, lastSet, consentimientos,
                   consentimientosArchivados, loading, retryCount, isRetrying, loadCb,
                   effect, cycles, timers, remote, lastEnd, exhausted>>

\* The id the backend gives the next record it inserts: ids follow creation order.
NewId == Cardinality(remote.active \cup remote.archived) + 1

\* const updated = [consentimientoCompleto, ...prev]
addLocal(prev, id) == <<id>> \o prev

\* addConsentimiento is called: up to the await of the connection check.
AddCall ==
    /\ UNCHANGED <<sub, rows, archs>>
    /\ Settled
    /\ add.pc = "idle"
    /\ add' = [IdleAdd EXCEPT !.pc = "check"]
    /\ call' = [call EXCEPT ![AddCaller] =
                   ccStartCall(lastConnectionStatus, localStorage, now)]
    /\ lastConnectionStatus' = ccStartStatus(lastConnectionStatus, localStorage, now)
    /\ UNCHANGED <<now, internet, backend, localStorage, dataCache, ret, lastSet,
                   orchVars, delays>>

\* The outer catch of addConsentimiento: up to the await of the second check.
AddCatch(error) ==
    /\ add' = [add EXCEPT !.pc = "recheck", !.error = error]
    /\ call' = [call EXCEPT ![AddCaller] =
                   ccStartCall(lastConnectionStatus, localStorage', now)]
    /\ lastConnectionStatus' = ccStartStatus(lastConnectionStatus, localStorage', now)

\* The first check returned: not connected throws; otherwise the artist lookup is
\* issued.
AddChecked ==
    /\ UNCHANGED <<sub, rows, archs>>
    /\ Settled
    /\ add.pc = "check" /\ call[AddCaller].pc = "idle"
    /\ localStorage' = localStorage
    /\ IF call[AddCaller].result # "true"
       THEN /\ add' = [IdleAdd EXCEPT !.result = "not-connected"]
            /\ call' = [call EXCEPT ![AddCaller] = IdleCall]
            /\ UNCHANGED lastConnectionStatus
       ELSE IF isOfflineMode(localStorage)
       THEN AddCatch("blocked")
       ELSE /\ add' = [add EXCEPT !.pc = "artist"]
            /\ UNCHANGED <<call, lastConnectionStatus>>
    /\ UNCHANGED <<now, internet, backend, dataCache, ret, lastSet, orchVars, delays>>

\* The artist lookup completed; on success the insert is issued.
AddArtist(o) ==
    /\ UNCHANGED <<sub, rows, archs>>
    /\ Settled
    /\ add.pc = "artist"
    /\ o \in RequestOutcomes(backend)
    /\ localStorage' = fetchWrapperLS(localStorage, o)
    /\ IF o = "ok" /\ ~isOfflineMode(localStorage')
       THEN /\ add' = [add EXCEPT !.pc = "insert"]
            /\ UNCHANGED <<call, lastConnectionStatus>>
       ELSE AddCatch(CASE o = "ok" -> "blocked"
                       [] o = "abort" -> "timeout"
                       [] OTHER -> "error")
    /\ UNCHANGED <<now, internet, backend, dataCache, ret, lastSet, orchVars, delays>>

\* The setConsentimientos updater of the local update (lines 516-521): prepend the
\* new record to the state it is given and write the result to the cache.
AddUpdater(id, ls, setItemOk) ==
    LET updated == addLocal(consentimientos, id)
    IN  /\ consentimientos' = updated
        /\ dataCache' = cacheDataMem(dataCache, now, CONSENT_CACHE_KEY,
                                     Arr(updated), CONSENT_CACHE_TTL)
        /\ localStorage' = cacheDataLS(ls, now, CONSENT_CACHE_KEY, Arr(updated),
                                       CONSENT_CACHE_TTL, setItemOk)

\* The insert completed; applied: the backend ran it (always when it answered ok,
\* possibly when the client gave up waiting). On success the updater is handed to
\* setConsentimientos and the record is returned; React calls the updater either at
\* once (eager, when the component has no pending update) or when it next renders
\* the component.
AddInsert(o, applied, eager, setItemOk) ==
    /\ UNCHANGED <<sub, rows, archs>>
    /\ Settled
    /\ add.pc = "insert"
    /\ o \in RequestOutcomes(backend)
    /\ applied = IF o = "abort" THEN applied ELSE (o = "ok")
    /\ eager = IF o = "ok" THEN eager ELSE TRUE
    /\ remote' = IF applied THEN [remote EXCEPT !.active = @ \cup {NewId}] ELSE remote
    /\ IF o = "ok"
       THEN /\ IF eager
                THEN /\ AddUpdater(NewId, fetchWrapperLS(localStorage, o), setItemOk)
                     /\ add' = [IdleAdd EXCEPT !.id = NewId, !.result = "ok"]
                ELSE /\ add' = [pc |-> "render", id |-> NewId, error |-> "none",
                                result |-> "ok"]
                     /\ localStorage' = fetchWrapperLS(localStorage, o)
                     /\ UNCHANGED <<consentimientos, dataCache>>
            /\ UNCHANGED <<call, lastConnectionStatus>>
       ELSE /\ localStorage' = fetchWrapperLS(localStorage, o)
            /\ AddCatch(IF o = "abort" THEN "timeout" ELSE "error")
            /\ UNCHANGED <<consentimientos, dataCache>>
    /\ UNCHANGED <<now, internet, backend, ret, lastSet, consentimientosArchivados,
                   loading, connectionError, retryCount, isRetrying, loadCb, effect,
                   cycles, timers, lastEnd, arch, exhausted, delays>>

\* The component renders with the queued updater: it is applied to the state of
\* that moment.
AddRender(setItemOk) ==
    /\ UNCHANGED <<sub, rows, archs>>
    /\ add.pc = "render"
    /\ AddUpdater(add.id, localStorage, setItemOk)
    /\ add' = [add EXCEPT !.pc = "idle"]
    /\ UNCHANGED <<now, internet, backend, lastConnectionStatus, ret, lastSet,
                   consentimientosArchivados, loading, connectionError, retryCount,
                   isRetrying, loadCb, effect, cycles, timers, remote, lastEnd, arch,
                   exhausted, delays, call>>

\* The second check returned: setConnectionError(true) when not connected, and the
\* error is thrown to the caller.
AddRechecked ==
    /\ UNCHANGED <<sub, rows, archs>>
    /\ Settled
    /\ add.pc = "recheck" /\ call[AddCaller].pc = "idle"
    /\ connectionError' = (connectionError \/ call[AddCaller].result # "true")
    /\ add' = [IdleAdd EXCEPT !.result = add.error]
    /\ call' = [call EXCEPT ![AddCaller] = IdleCall]
    /\ UNCHANGED <<now, internet, backend, localStorage, dataCache,
                   lastConnectionStatus, ret, lastSet, consentimientos,
                   consentimientosArchivados, loading, retryCount, isRetrying, loadCb,
                   effect, cycles, timers, remote, lastEnd, arch, exhausted, delays>>

\* What the backend holds at start: the first record active, the others archived.
RemoteStates == {[active |-> {1}, archived |-> Ids \ {1}]}

\* localStorage.setItem in cacheData: the quota is not exceeded here (SpecCache
\* covers the failures).
SetItemOutcomes == {TRUE}

\* Time passes: a debounce window of the connection status.
WindowPasses ==
    /\ UNCHANGED auxVars
    /\ Settled
    /\ now + CACHE_TTL <= MaxNow
    /\ now' = now + CACHE_TTL
    /\ UNCHANGED <<internet, backend, localStorage, dataCache, lastConnectionStatus,
                   call, ret, lastSet, orchVars>>

Init ==
    /\ LibInit
    /\ internet = TRUE
    /\ backend \in {"up", "down"}
    /\ call = [c \in Callers |-> IdleCall]
    /\ ret = NoRet
    /\ lastSet = [k \in Keys |-> NoSet]
    /\ consentimientos = <<>>
    /\ consentimientosArchivados = <<>>
    /\ loading = TRUE
    /\ connectionError = FALSE
    /\ retryCount = 0
    /\ isRetrying = FALSE
    /\ loadCb = [retryCount |-> 0, isRetrying |-> FALSE]
    /\ effect = [ran |-> FALSE, deps |-> Deps(FALSE, 0, FALSE), interval |-> FALSE,
                 mounted |-> TRUE]
    /\ cycles = [k \in Slots |-> FreeCycle]
    /\ timers = <<>>
    /\ remote \in RemoteStates
    /\ lastEnd = NoEnd
    /\ arch = IdleArch
    /\ exhausted = FALSE
    /\ add = IdleAdd
    /\ delays = NoDelays
    /\ sub = IdleSub
    /\ rows = NoRows
    /\ archs = [n \in 1..MaxOverlap |-> IdleOv]

\* The load cycles with their scheduled retries. The user (the retry button of the
\* error message) and the browser (network lost, network back) act between cycles.
Next ==
    \/ EffectRun
    \/ \E c \in Slots, o \in {"ok", "error", "abort", "fail"} : CallProbe(c, o)
    \/ \E k \in Slots : retryCount < MaxRetryCount /\ LoadChecked(k)
    \/ \E k \in Slots, o \in {"ok", "error", "abort", "fail"} : LoadActivos(k, o)
    \/ \E k \in Slots, o \in {"ok", "error", "abort", "fail"}, ok \in SetItemOutcomes :
           LoadArchivados(k, o, ok)
    \/ \E i \in 1..MaxTimers : TimerFire(i)
    \/ (InFlight = {} /\ EnvOnline)
    \/ (InFlight = {} /\ EnvOffline)
    \/ EnvBackendFlip
    \/ (InFlight = {} /\ connectionError /\ RetryConnection)
    \/ WindowPasses

Spec == Init /\ [][Next]_vars

\* ---------------------------- SpecOutage: the backend stays unreachable
InitOutage ==
    /\ Init
    /\ backend = "down"

NextOutage ==
    \/ EffectRun
    \/ \E c \in Slots, o \in {"abort", "fail"} : CallProbe(c, o)
    \/ \E k \in Slots : retryCount < MaxOutageRetryCount /\ LoadChecked(k)
    \/ \E i \in 1..MaxTimers : TimerFire(i)
    \/ IntervalFire
    \/ WindowPasses

SpecOutage == InitOutage /\ [][NextOutage]_vars

\* ------------------------------------- SpecTeardown: the provider unmounts
\* The provider unmounts: the cleanup of the last effect run (unsubscribe,
\* clearInterval, the two listeners removed). The background-retry setTimeouts are
\* not kept anywhere and stay pending.
Unmount ==
    /\ UNCHANGED auxVars
    /\ Settled
    /\ effect.mounted
    /\ effect' = [effect EXCEPT !.mounted = FALSE, !.interval = FALSE]
    /\ UNCHANGED <<now, internet, backend, localStorage, dataCache,
                   lastConnectionStatus, call, ret, lastSet, reactVars, cycles, timers,
                   remote, lastEnd, arch, exhausted>>

\* A background-retry setTimeout fires after the unmount: loadConsentimientos() of
\* the closure that scheduled it runs up to the await of its connection check; the
\* state setters of an unmounted component change nothing. As in LoadInvoke, an
\* invocation that finds no free slot is not followed further.
TimerFireUnmounted(i) ==
    /\ UNCHANGED auxVars
    /\ ~effect.mounted
    /\ i \in 1..Len(timers)
    /\ LET dc1 == getCachedDataMem(dataCache, localStorage, now, CONSENT_CACHE_KEY)
           ls1 == getCachedDataLS(dataCache, localStorage, now, CONSENT_CACHE_KEY)
           dc2 == getCachedDataMem(dc1, ls1, now, ARCHIVED_CONSENT_CACHE_KEY)
           ls2 == getCachedDataLS(dc1, ls1, now, ARCHIVED_CONSENT_CACHE_KEY)
       IN  /\ dataCache' = dc2
           /\ localStorage' = ls2
           /\ lastConnectionStatus' = ccStartStatus(lastConnectionStatus, ls2, now)
           /\ IF FreeSlots # {}
              THEN LET k == CHOOSE x \in FreeSlots : \A y \in FreeSlots : x <= y
                   IN  /\ call' = [call EXCEPT ![k] =
                              ccStartCall(lastConnectionStatus, ls2, now)]
                       /\ cycles' = [cycles EXCEPT ![k] =
                              [pc |-> "check", manual |-> FALSE,
                               rc |-> timers[i].retryCount, data |-> <<>>]]
              ELSE UNCHANGED <<call, cycles>>
    /\ timers' = [n \in 1..(Len(timers) - 1) |-> IF n < i THEN timers[n] ELSE timers[n + 1]]
    /\ UNCHANGED <<now, internet, backend, ret, lastSet, reactVars, effect, remote,
                   lastEnd, arch, exhausted>>

\* The outage, with the provider unmounting at some point; what was in flight at
\* the unmount is not followed further.
NextTeardown ==
    \/ (effect.mounted /\ NextOutage)
    \/ Unmount
    \/ \E i \in 1..MaxTimers : TimerFireUnmounted(i)

SpecTeardown == InitOutage /\ [][NextTeardown]_vars

\* ------------------------------------------- SpecRetry: the retry button
\* The error message with its retry button is on screen while connectionError holds;
\* the user may press it while load cycles are in flight. The backend stays as it
\* is at start.
NextRetry ==
    \/ EffectRun
    \/ \E c \in Slots, o \in {"ok", "error", "abort", "fail"} : CallProbe(c, o)
    \/ \E k \in Slots : retryCount < MaxRetryCount /\ LoadChecked(k)
    \/ \E k \in Slots, o \in {"ok", "error", "abort", "fail"} : LoadActivos(k, o)
    \/ \E k \in Slots, o \in {"ok", "error", "abort", "fail"}, ok \in SetItemOutcomes :
           LoadArchivados(k, o, ok)
    \/ \E i \in 1..MaxTimers : TimerFire(i)
    \/ (connectionError /\ RetryConnection)
    \/ WindowPasses

SpecRetry == Init /\ [][NextRetry]_vars

\* ------------------------- SpecArchive: archivarConsentimiento and the loads
\* The user archives a record of the list on screen, between load cycles.
NextArchive ==
    \/ EffectRun
    \/ \E c \in Callers, o \in {"ok", "error", "abort", "fail"} : CallProbe(c, o)
    \/ \E k \in Slots : retryCount < MaxRetryCount /\ LoadChecked(k)
    \/ \E k \in Slots, o \in {"ok", "error", "abort", "fail"} : LoadActivos(k, o)
    \/ \E k \in Slots, o \in {"ok", "error", "abort", "fail"}, ok \in SetItemOutcomes :
           LoadArchivados(k, o, ok)
    \/ \E id \in Ids :
           /\ InFlight = {}
           /\ Len(consentimientosArchivados) < MaxArchivedLen
           /\ ArchiveCall(id)
    \/ \E ok \in SetItemOutcomes : ArchiveChecked(ok)
    \/ \E o \in {"ok", "error", "abort", "fail"}, applied \in BOOLEAN :
           ArchiveRpc(o, applied)
    \/ ArchiveRechecked
    \/ EnvBackendFlip
    \/ WindowPasses

SpecArchive == Init /\ [][NextArchive]_vars

\* ------- SpecWrites: addConsentimiento and archivarConsentimiento among the loads
\* The user makes one write, at any moment (load cycles may be in flight): archives
\* a record of the active list on screen, or adds a record. Date.now() stays inside
\* one debounce window of the connection status.
NextWrites ==
    \/ EffectRun
    \/ \E c \in Callers, o \in {"ok", "error", "abort", "fail"} : CallProbe(c, o)
    \/ \E k \in Slots : retryCount < MaxRetryCount /\ LoadChecked(k)
    \/ \E k \in Slots, o \in {"ok", "error", "abort", "fail"} : LoadActivos(k, o)
    \/ \E k \in Slots, o \in {"ok", "error", "abort", "fail"}, ok \in SetItemOutcomes :
           LoadArchivados(k, o, ok)
    \/ \E id \in Ids :
           /\ arch.result = "none" /\ add = IdleAdd
           /\ Has(consentimientos, id)
           /\ ArchiveCall(id)
    \/ \E ok \in SetItemOutcomes : ArchiveChecked(ok)
    \/ \E o \in {"ok", "error", "abort", "fail"}, applied \in BOOLEAN :
           ArchiveRpc(o, applied)
    \/ ArchiveRechecked
    \/ (/\ NewId <= MaxRecords + MaxCreated
        /\ add.result = "none" /\ arch = IdleArch
        /\ AddCall)
    \/ AddChecked
    \/ \E o \in {"ok", "error", "abort", "fail"} : AddArtist(o)
    \/ \E o \in {"ok", "error", "abort", "fail"}, applied \in BOOLEAN, eager \in BOOLEAN,
          ok \in SetItemOutcomes : AddInsert(o, applied, eager, ok)
    \/ \E ok \in SetItemOutcomes : AddRender(ok)
    \/ AddRechecked
    \/ EnvBackendFlip

SpecWrites == Init /\ [][NextWrites]_vars

\* ------------------------------- SpecDelay: the background-retry delays
\* getRetryDelay: baseDelay, maxDelay (ms).
baseDelay == 3000
maxDelay == 120000

\* Math.min(maxDelay, baseDelay * Math.pow(2, attempt))
expBackoff_NoCap(attempt) == baseDelay * 2^attempt
expBackoff(attempt) ==
    IF baseDelay * 2^attempt < maxDelay THEN baseDelay * 2^attempt ELSE maxDelay

\* getRetryDelay(attempt) with Math.random() = j / JitterSteps:
\*   jitter = expBackoff * 0.3 * (Math.random() * 2 - 1)
\*   Math.floor(expBackoff + jitter)
getRetryDelay(attempt, j) ==
    (expBackoff(attempt) * 10 * JitterSteps
       + expBackoff(attempt) * 3 * (2 * j - JitterSteps)) \div (10 * JitterSteps)

\* The disconnected branch schedules a background retry: the delay of the attempt
\* (retryCount), then setRetryCount(prev => prev + 1).
ScheduleRetry(j) ==
    /\ UNCHANGED <<sub, rows, archs>>
    /\ delays.attempt < MAX_RETRIES
    /\ delays' = [attempt |-> delays.attempt + 1,
                  realized |-> IF delays.realized = <<>>
                               THEN <<getRetryDelay(delays.attempt, j)>>
                               ELSE <<delays.realized[Len(delays.realized)],
                                      getRetryDelay(delays.attempt, j)>>]
    /\ UNCHANGED <<now, internet, backend, localStorage, dataCache,
                   lastConnectionStatus, call, ret, lastSet, orchVars, add>>

\* setRetryCount(0): a connection, a manual retry, the online event.
ResetRetries ==
    /\ UNCHANGED <<sub, rows, archs>>
    /\ delays.attempt > 0
    /\ delays' = NoDelays
    /\ UNCHANGED <<now, internet, backend, localStorage, dataCache,
                   lastConnectionStatus, call, ret, lastSet, orchVars, add>>

NextDelay ==
    \/ \E j \in 0..(JitterSteps - 1) : ScheduleRetry(j)
    \/ ResetRetries

SpecDelay == InitCache /\ [][NextDelay]_vars

\* --------------- SpecProbeWait: the waits of checkSupabaseConnection's retry loop
\* RETRY_SETTINGS.initialDelay, .maxDelay, .factor
RETRY_initialDelay == 2000
RETRY_maxDelay == 120000
RETRY_factor == 2

\* const jitter = Math.random() * 0.3 * delay;
\* delay = Math.min(delay * factor + jitter, maxDelay), with Math.random() = j /
\* JitterSteps and the result taken in whole milliseconds, as setTimeout takes it.
ccNextDelay_NoCap(delay, j) ==
    (delay * (10 * RETRY_factor * JitterSteps + 3 * j)) \div (10 * JitterSteps)
ccNextDelay(delay, j) ==
    LET next == (delay * (10 * RETRY_factor * JitterSteps + 3 * j))
                    \div (10 * JitterSteps)
    IN  IF next < RETRY_maxDelay THEN next ELSE RETRY_maxDelay

\* An attempt threw and it was not the last: currentRetry++, the next delay is
\* computed from the current one and slept. delays.attempt is currentRetry,
\* delays.realized the delay before and after the computation.
ProbeWait(j) ==
    /\ delays.attempt + 1 < RETRY_maxRetries
    /\ LET delay == IF delays.realized = <<>> THEN RETRY_initialDelay
                    ELSE delays.realized[2]
       IN  delays' = [attempt |-> delays.attempt + 1,
                      realized |-> <<delay, ccNextDelay(delay, j)>>]
    /\ UNCHANGED <<now, internet, backend, localStorage, dataCache,
                   lastConnectionStatus, call, ret, lastSet, orchVars, add, sub, rows, archs>>

NextProbeWait == \E j \in 0..(JitterSteps - 1) : ProbeWait(j)

SpecProbeWait == InitCache /\ [][NextProbeWait]_vars

\* ------------------------- SpecSub: a realtime subscription and its reconnects
\* Status callbacks a subscription receives at most,
MaxSubTimers == 2
\* the time (ms) up to which it is followed,
MaxSubT == 60000
\* and the callback invocations counted.
MaxSubCalls == 2
\* One step of the subscription's clock (ms).
SubTickMs == 10000
\* setTimeout(..., 30000) of the status callback.
RECONNECT_DELAY == 30000

\* createRealtimeSubscription: in offline mode a handle without channel, else the
\* channel is subscribed.
SubCreate ==
    /\ sub.phase = "none"
    /\ sub' = [sub EXCEPT !.phase = IF isOfflineMode(localStorage) THEN "fake"
                                    ELSE "joined"]
    /\ UNCHANGED <<now, internet, backend, localStorage, dataCache,
                   lastConnectionStatus, call, ret, lastSet, orchVars, add, delays, rows, archs>>

\* The status callback of subscribe(): on OFFLINE or CLOSED a reconnect probe is
\* scheduled with setTimeout; the handle of the timer is not kept.
SubStatus(status) ==
    /\ sub.phase = "joined"
    /\ Len(sub.timers) < MaxSubTimers
    /\ sub' = IF status \in {"OFFLINE", "CLOSED"}
              THEN [sub EXCEPT !.timers = Append(@, sub.t + RECONNECT_DELAY)]
              ELSE sub
    /\ UNCHANGED <<now, internet, backend, localStorage, dataCache,
                   lastConnectionStatus, call, ret, lastSet, orchVars, add, delays, rows, archs>>

\* Time passes, up to the next timer that is due.
SubTick ==
    /\ sub.t + SubTickMs <= MaxSubT
    /\ \A n \in 1..Len(sub.timers) : sub.timers[n] >= sub.t + SubTickMs
    /\ sub' = [sub EXCEPT !.t = @ + SubTickMs]
    /\ UNCHANGED <<now, internet, backend, localStorage, dataCache,
                   lastConnectionStatus, call, ret, lastSet, orchVars, add, delays, rows, archs>>

\* A reconnect timer fires: checkSupabaseConnection() is called.
SubTimerFire ==
    /\ sub.timers # <<>>
    /\ Head(sub.timers) <= sub.t
    /\ sub' = [sub EXCEPT !.timers = Tail(@), !.probes = @ + 1]
    /\ UNCHANGED <<now, internet, backend, localStorage, dataCache,
                   lastConnectionStatus, call, ret, lastSet, orchVars, add, delays, rows, archs>>

\* The probe of a reconnect resolved: callback() when it reports connected.
SubProbe(isConnected) ==
    /\ sub.probes > 0
    /\ sub.calls < MaxSubCalls
    /\ sub' = IF isConnected
              THEN [sub EXCEPT !.probes = @ - 1, !.calls = @ + 1,
                               !.late = @ \/ sub.phase = "cancelled"]
              ELSE [sub EXCEPT !.probes = @ - 1]
    /\ UNCHANGED <<now, internet, backend, localStorage, dataCache,
                   lastConnectionStatus, call, ret, lastSet, orchVars, add, delays, rows, archs>>

\* unsubscribe() on the handle: the channel is released; the pending timers and
\* probes are not touched.
SubCancel ==
    /\ sub.phase \in {"joined", "fake", "cancelled"}
    /\ sub' = [sub EXCEPT !.phase = "cancelled"]
    /\ UNCHANGED <<now, internet, backend, localStorage, dataCache,
                   lastConnectionStatus, call, ret, lastSet, orchVars, add, delays, rows, archs>>

NextSub ==
    \/ \E active \in BOOLEAN : sub.phase = "none" /\ ToggleOfflineMode(active)
    \/ SubCreate
    \/ \E status \in {"SUBSCRIBED", "CHANNEL_ERROR", "TIMED_OUT", "CLOSED", "OFFLINE"} :
           SubStatus(status)
    \/ SubTick
    \/ SubTimerFire
    \/ \E isConnected \in BOOLEAN : SubProbe(isConnected)
    \/ SubCancel

SpecSub == InitCache /\ [][NextSub]_vars

\* ------- SpecRows: transformarDatos on batches of raw rows
\* A select returns a batch of raw rows; client_info is a JSON column the client
\* casts without validation: "object" holds every field the mapping reads, "partial"
\* is an object that lacks some (reading them gives undefined), "null" is null
\* (reading a field of it throws a TypeError).
MaxBatch == 3
RawRows == [id : Ids, client_info : {"object", "partial", "null"}]
RECURSIVE Batches(_)
Batches(n) ==
    IF n = 0 THEN {<<>>}
    ELSE Batches(n - 1) \cup {Append(b, r) : b \in {x \in Batches(n - 1) : Len(x) = n - 1},
                                              r \in RawRows}

\* const { data } = await supabase.from('consents').select(...): the batch arrives.
RowsFetched(data) ==
    /\ rows.pc # "fetched"
    /\ rows' = [pc |-> "fetched", data |-> data, out |-> <<>>]
    /\ UNCHANGED <<now, internet, backend, localStorage, dataCache,
                   lastConnectionStatus, call, ret, lastSet, orchVars, add, delays, sub, archs>>

\* const consentimientosActivos = transformarDatos(dataActivos)
Transform ==
    /\ rows.pc = "fetched"
    /\ rows' = [rows EXCEPT !.pc = "mapped", !.out = transformarDatos(rows.data)]
    /\ UNCHANGED <<now, internet, backend, localStorage, dataCache,
                   lastConnectionStatus, call, ret, lastSet, orchVars, add, delays, sub, archs>>

NextRows ==
    \/ \E data \in Batches(MaxBatch) : RowsFetched(data)
    \/ Transform

SpecRows == InitCache /\ [][NextRows]_vars

\* ------- SpecOverlap: archivarConsentimiento calls that overlap
\* A load cycle has published and cached the two collections and no other is in
\* flight (the state Spec reaches when, of two concurrent cycles, one failed a fetch
\* and the other then succeeded: connectionError is left set); the user then
\* archives records, a second call possibly starting while the first is suspended at
\* one of its awaits. No load cycle runs meanwhile and Date.now() stays where it is:
\* inside the debounce window of the load's connection check, or just out of it.
InitLoaded ==
    /\ now \in {StartNow, StartNow + CACHE_TTL}
    /\ internet = TRUE
    /\ backend = "up"
    /\ remote \in {[active |-> A, archived |-> Ids \ A] : A \in SUBSET Ids}
    /\ consentimientos = Descending(remote.active)
    /\ consentimientosArchivados = Descending(remote.archived)
    /\ dataCache =
           cacheDataMem(cacheDataMem([k \in Keys |-> NoItem], StartNow, CONSENT_CACHE_KEY,
                                     Arr(consentimientos), CONSENT_CACHE_TTL),
                        StartNow, ARCHIVED_CONSENT_CACHE_KEY,
                        Arr(consentimientosArchivados), CONSENT_CACHE_TTL)
    /\ localStorage =
           [app_offline_mode |-> FALSE, app_network_unreachable |-> FALSE,
            cache |-> [k \in Keys |-> IF dataCache[k] = NoItem THEN NoItem
                                     ELSE JSONstringify(dataCache[k])]]
    /\ lastConnectionStatus = Status(TRUE, StartNow)
    /\ call = [c \in Callers |-> IdleCall]
    /\ ret = NoRet
    /\ lastSet = [k \in Keys |-> NoSet]
    /\ loading = FALSE
    /\ connectionError = TRUE
    /\ retryCount = 0
    /\ isRetrying = FALSE
    /\ loadCb = [retryCount |-> 0, isRetrying |-> TRUE]
    /\ effect = [ran |-> TRUE, deps |-> Deps(TRUE, 0, FALSE), interval |-> FALSE,
                 mounted |-> TRUE]
    /\ cycles = [k \in Slots |-> FreeCycle]
    /\ timers = <<>>
    /\ lastEnd = Ended("ok", "none", "ok")
    /\ arch = IdleArch
    /\ exhausted = FALSE
    /\ add = IdleAdd
    /\ delays = NoDelays
    /\ sub = IdleSub
    /\ rows = NoRows
    /\ archs = [n \in 1..MaxOverlap |-> IdleOv]

\* archivarConsentimiento(id) is called (call n): up to the await of the connection
\* check. The function is the one of the render on screen.
OvCall(n, id) ==
    /\ archs[n] = IdleOv
    /\ archs' = [archs EXCEPT ![n] =
                    [IdleOv EXCEPT !.pc = "check", !.id = id,
                                   !.activos = consentimientos,
                                   !.archivados = consentimientosArchivados,
                                   !.check = ccStartCall(lastConnectionStatus,
                                                         localStorage, now),
                                   !.during = {m \in 1..MaxOverlap :
                                                  archs[m].pc \notin {"idle", "done"}}]]
    /\ lastConnectionStatus' = ccStartStatus(lastConnectionStatus, localStorage, now)
    /\ UNCHANGED <<now, internet, backend, localStorage, dataCache, call, ret, lastSet,
                   orchVars, add, delays, sub, rows>>

\* The check of call n returned (o: how its probes ended, when it probed): not
\* connected throws; otherwise the local update (both collections, both cache keys)
\* and the rpc is issued.
OvChecked(n, o, setItemOk) ==
    /\ archs[n].pc = "check"
    /\ o \in RequestOutcomes(backend)
    /\ LET a == archs[n]
           r == IF a.check.pc = "idle"
                THEN [call |-> a.check, status |-> lastConnectionStatus,
                      ls |-> localStorage]
                ELSE ccRun(a.check, lastConnectionStatus, localStorage, internet, o)
           recheck == [a EXCEPT !.pc = "recheck",
                                !.check = ccStartCall(r.status, r.ls, now)]
       IN  IF r.call.result # "true"
           THEN /\ archs' = [archs EXCEPT ![n] =
                                [a EXCEPT !.pc = "done", !.result = "not-connected"]]
                /\ lastConnectionStatus' = r.status
                /\ localStorage' = r.ls
                /\ UNCHANGED <<consentimientos, consentimientosArchivados, dataCache>>
           ELSE IF ~getConsentimiento(a.activos, a.archivados, a.id)
           THEN /\ archs' = [archs EXCEPT ![n] = [recheck EXCEPT !.error = "not-found"]]
                /\ lastConnectionStatus' = ccStartStatus(r.status, r.ls, now)
                /\ localStorage' = r.ls
                /\ UNCHANGED <<consentimientos, consentimientosArchivados, dataCache>>
           ELSE LET nuevosActivos == Without(a.activos, a.id)
                    nuevosArchivados == <<a.id>> \o a.archivados
                    dc1 == cacheDataMem(dataCache, now, CONSENT_CACHE_KEY,
                                        Arr(nuevosActivos), CONSENT_CACHE_TTL)
                    ls1 == cacheDataLS(r.ls, now, CONSENT_CACHE_KEY,
                                       Arr(nuevosActivos), CONSENT_CACHE_TTL, setItemOk)
                IN  /\ consentimientos' = nuevosActivos
                    /\ consentimientosArchivados' = nuevosArchivados
                    /\ dataCache' = cacheDataMem(dc1, now, ARCHIVED_CONSENT_CACHE_KEY,
                                                 Arr(nuevosArchivados), CONSENT_CACHE_TTL)
                    /\ localStorage' = cacheDataLS(ls1, now, ARCHIVED_CONSENT_CACHE_KEY,
                                                   Arr(nuevosArchivados),
                                                   CONSENT_CACHE_TTL, setItemOk)
                    /\ IF isOfflineMode(r.ls)
                       THEN /\ archs' = [archs EXCEPT ![n] =
                                            [recheck EXCEPT !.error = "blocked"]]
                            /\ lastConnectionStatus' = ccStartStatus(r.status, r.ls, now)
                       ELSE /\ archs' = [archs EXCEPT ![n] = [a EXCEPT !.pc = "rpc"]]
                            /\ lastConnectionStatus' = r.status
    /\ UNCHANGED <<now, internet, backend, call, ret, lastSet, loading, connectionError,
                   retryCount, isRetrying, loadCb, effect, cycles, timers, remote,
                   lastEnd, arch, exhausted, add, delays, sub, rows>>

\* The rpc archivar_consentimiento of call n completed; applied: the backend ran it.
OvRpc(n, o, applied) ==
    /\ archs[n].pc = "rpc"
    /\ o \in RequestOutcomes(backend)
    /\ applied = IF o = "abort" THEN applied ELSE (o = "ok")
    /\ remote' = IF applied /\ archs[n].id \in remote.active
                 THEN [active |-> remote.active \ {archs[n].id},
                       archived |-> remote.archived \cup {archs[n].id}]
                 ELSE remote
    /\ localStorage' = fetchWrapperLS(localStorage, o)
    /\ IF o = "ok"
       THEN /\ archs' = [archs EXCEPT ![n] = [@ EXCEPT !.pc = "done", !.result = "ok"]]
            /\ UNCHANGED lastConnectionStatus
       ELSE /\ archs' = [archs EXCEPT ![n] =
                            [@ EXCEPT !.pc = "recheck",
                                      !.error = IF o = "abort" THEN "timeout" ELSE "error",
                                      !.check = ccStartCall(lastConnectionStatus,
                                                            localStorage', now)]]
            /\ lastConnectionStatus' =
                   ccStartStatus(lastConnectionStatus, localStorage', now)
    /\ UNCHANGED <<now, internet, backend, dataCache, call, ret, lastSet, reactVars,
                   effect, cycles, timers, lastEnd, arch, exhausted, add, delays, sub,
                   rows>>

\* The check in the catch of call n returned: setConnectionError(true) when not
\* connected, and the error is thrown to the caller.
OvRechecked(n, o) ==
    /\ archs[n].pc = "recheck"
    /\ o \in RequestOutcomes(backend)
    /\ LET a == archs[n]
           r == IF a.check.pc = "idle"
                THEN [call |-> a.check, status |-> lastConnectionStatus,
                      ls |-> localStorage]
                ELSE ccRun(a.check, lastConnectionStatus, localStorage, internet, o)
       IN  /\ connectionError' = (connectionError \/ r.call.result # "true")
           /\ lastConnectionStatus' = r.status
           /\ localStorage' = r.ls
           /\ archs' = [archs EXCEPT ![n] = [a EXCEPT !.pc = "done", !.result = a.error]]
    /\ UNCHANGED <<now, internet, backend, dataCache, call, ret, lastSet,
                   consentimientos, consentimientosArchivados, loading, retryCount,
                   isRetrying, loadCb, effect, cycles, timers, remote, lastEnd, arch,
                   exhausted, add, delays, sub, rows>>

NextOverlap ==
    \/ \E n \in 1..MaxOverlap, id \in Ids : OvCall(n, id)
    \/ \E n \in 1..MaxOverlap, o \in {"ok", "error", "abort", "fail"},
          ok \in SetItemOutcomes : OvChecked(n, o, ok)
    \/ \E n \in 1..MaxOverlap, o \in {"ok", "error", "abort", "fail"},
          applied \in BOOLEAN : OvRpc(n, o, applied)
    \/ \E n \in 1..MaxOverlap, o \in {"ok", "error", "abort", "fail"} : OvRechecked(n, o)
    \/ EnvBackendFlip

SpecOverlap == InitLoaded /\ [][NextOverlap]_vars

\* ================================================================== claims

\* What a read of the cache returns for the active collection.
CachedActive == getCachedData(dataCache, localStorage, now, CONSENT_CACHE_KEY)

\* ---- C1 (Spec) ----
\* C1: at most one invocation of loadConsentimientos is in flight at any time.
C1_SingleLoadCycle == Cardinality(InFlight) <= 1

\* ---- C2 (Spec) ----
\* C2: when the archived fetch times out after the active fetch brought a non-empty
\* list, that list becomes the in-memory active collection and the cached one.
C2_PartialOnTimeout ==
    [][\A k \in Slots :
          (/\ LoadArchivados(k, "abort", TRUE)
           /\ Len(transformarDatos(cycles[k].data)) > 0)
          => /\ consentimientos' = transformarDatos(cycles[k].data)
             /\ CachedActive' = Arr(transformarDatos(cycles[k].data))
      ]_vars

C4_OfflineReturnsFalse ==
    \A c \in Callers :
        call[c].offlineAtStart =>
            /\ ~call[c].probed
            /\ call[c].pc = "idle" /\ call[c].result = "false"

\* ---- C5 (SpecConn) ----
\* C5: two checkSupabaseConnection calls started within the debounce window of each
\* other do not both run a network probe sequence, also when the second starts while
\* the first is still probing.
Started(c) == call[c].pc # "idle" \/ call[c].result # "none"
C5_OneProbePerWindow ==
    \A c1, c2 \in Callers :
        (/\ c1 # c2
         /\ Started(c1) /\ Started(c2)
         /\ call[c1].now - call[c2].now < CACHE_TTL
         /\ call[c2].now - call[c1].now < CACHE_TTL)
        => ~(call[c1].probed /\ call[c2].probed)

\* ---- C6 (SpecConn) ----
\* C6: with the network and the backend reachable, the offline-mode override not set
\* and no status inside the debounce window, a call of checkSupabaseConnection
\* issues a probe, whatever was recorded before.
C6_ProbesWhenReachable ==
    [][\A c \in Slots :
          (/\ CallStart(c)
           /\ internet /\ backend = "up"
           /\ ~localStorage.app_offline_mode
           /\ now - lastConnectionStatus.timestamp >= CACHE_TTL)
          => call'[c].probed
      ]_vars

\* ---- C7 (SpecOutage) ----
\* C7: once the 5-minute interval has been armed (retryCount reached MAX_RETRIES
\* with connectionError), and while the backend stays unreachable and nobody retries
\* by hand, no background retry is scheduled with the exponential delay any more,
\* and the interval stays armed.
C7_FlatAfterExhaustion ==
    [][(exhausted /\ exhausted')
          => /\ Len(timers') <= Len(timers)
             /\ Settled' => effect'.interval
      ]_vars

\* ---- C8 (SpecArchive) ----
\* C8: when archivarConsentimiento(id) throws the timeout error, the record is in
\* neither the in-memory active collection nor the cached active collection.
C8_AbsentOnTimeout ==
    [][(ArchiveRechecked /\ arch.error = "timeout")
          => /\ ~Has(consentimientos', arch.id)
             /\ NonEmpty(CachedActive') => ~Has(CachedActive'.items, arch.id)
      ]_vars

\* ---- C9 (SpecCache) ----
\* C9: cacheData(key, v, ttl) with v non-empty, followed by getCachedData(key): the
\* read returns exactly v when it happens no later than the expiry, and a miss
\* (null) when it happens after the expiry.
C9_SetThenGet ==
    [][\A k \in Keys :
          (CacheGet(k) /\ lastSet[k].live) =>
              ret'.result = IF now <= lastSet[k].expiry THEN lastSet[k].data ELSE Null
      ]_vars

\* ---- C10 (SpecCache) ----
\* C10: cacheData with null or an empty array leaves both tiers as they were, and no
\* entry of either tier ever holds null or an empty array.
HoldsNothing(cell) == cell.kind # "none" /\ (cell.data.kind = "null" \/ cell.data.items = <<>>)
C10_EmptySetIsNoOp ==
    /\ [](\A k \in Keys : ~HoldsNothing(dataCache[k]) /\ ~HoldsNothing(localStorage.cache[k]))
    /\ [][(ret'.op = "set" /\ (ret'.arg.kind = "null" \/ ret'.arg.items = <<>>))
             => UNCHANGED <<dataCache, localStorage>>]_vars
\* An empty set was just called on a key that holds a good entry in both tiers.
C10_Witness ==
    /\ ret.op = "set" /\ ret.arg = Arr(<<>>)
    /\ dataCache[ret.key].kind = "item"
    /\ localStorage.cache[ret.key].kind = "json"

\* ---- C11 (SpecDelay) ----
\* The attempt the latest realized delay was computed for.
LastAttempt == delays.attempt - 1
LastDelay == delays.realized[Len(delays.realized)]
\* d lies within 30% of x.
Within30(d, x) == 10 * d >= 7 * x /\ 10 * d <= 13 * x

\* C11, as the code has it: the delay of each attempt lies within 30% of
\* min(maxDelay, baseDelay * 2^attempt), so at most 30% above maxDelay; and over the
\* attempts whose baseDelay * 2^attempt is below maxDelay the realized delays do not
\* decrease from one attempt to the next.
C11_DelayWithinJitterOfCapped ==
    delays.realized # <<>> =>
        /\ Within30(LastDelay,
                    IF baseDelay * 2^LastAttempt < maxDelay
                    THEN baseDelay * 2^LastAttempt ELSE maxDelay)
        /\ (Len(delays.realized) = 2 /\ baseDelay * 2^LastAttempt < maxDelay)
              => delays.realized[1] <= delays.realized[2]
\* The first attempt computed at the cap has got the smallest delay it can get,
\* after an attempt below the cap that got more.
C11_Witness ==
    /\ Len(delays.realized) = 2
    /\ baseDelay * 2^LastAttempt >= maxDelay
    /\ baseDelay * 2^(LastAttempt - 1) < maxDelay
    /\ delays.realized[2] < delays.realized[1]
\* C11 as stated: each delay lies within 30% of baseDelay * 2^attempt, and the
\* delays do not decrease while baseDelay * 2^attempt is below maxDelay.
C11_DelayWithinJitterOfDoubling ==
    delays.realized # <<>> =>
        /\ Within30(LastDelay, baseDelay * 2^LastAttempt)
        /\ (Len(delays.realized) = 2 /\ baseDelay * 2^LastAttempt < maxDelay)
              => delays.realized[1] <= delays.realized[2]

\* ---- C12 (SpecRetry) ----
\* C12: retryConnection leaves retryCount at 0 and connectionError cleared, and the
\* load cycle it starts (isManualRetry) is then at the await of its connection
\* check: the check of that cycle comes after the two resets.
C12_ManualRetryResets ==
    [][RetryConnection
          => /\ retryCount' = 0
             /\ ~connectionError'
             /\ FreeSlots # {} =>
                    \E k \in FreeSlots : /\ cycles'[k].pc = "check"
                                         /\ cycles'[k].manual
      ]_vars
\* The retry button was pressed after a disconnected cycle had counted a retry and
\* scheduled its timer: loading is on again (only a manual retry turns it on), the
\* count is 0 and the error cleared.
C12_Witness ==
    /\ loading /\ isRetrying
    /\ lastEnd.how = "disconnected" /\ timers # <<>>
    /\ retryCount = 0 /\ ~connectionError

\* ---- C13 (SpecRetry) ----
\* C13: retryConnection leaves no background-retry timer pending.
C13_ManualRetryCancelsTimers ==
    [][RetryConnection => timers' = <<>>]_vars

C15_CommitPublishesAndCaches ==
    [][\A k \in Slots :
          LoadArchivados(k, "ok", TRUE)
          => LET activos == transformarDatos(cycles[k].data)
                 archivados == transformarDatos(selectConsents(TRUE))
             IN  /\ consentimientos' = activos
                 /\ consentimientosArchivados' = archivados
                 /\ dataCache'[CONSENT_CACHE_KEY].kind = "item"
                 /\ dataCache'[CONSENT_CACHE_KEY].data = Arr(activos)
                 /\ dataCache'[CONSENT_CACHE_KEY].timestamp = now
                 /\ dataCache'[ARCHIVED_CONSENT_CACHE_KEY].kind = "item"
                 /\ dataCache'[ARCHIVED_CONSENT_CACHE_KEY].data = Arr(archivados)
                 /\ dataCache'[ARCHIVED_CONSENT_CACHE_KEY].timestamp = now
      ]_vars

\* ---- C16 (SpecConn) ----
\* What is left of a call of checkSupabaseConnection: it decreases with every step
\* of the call.
Remaining(cl) ==
    CASE cl.pc = "internet" -> 2 * RETRY_maxRetries + 2
      [] cl.pc = "backend" -> 2 * (RETRY_maxRetries - cl.currentRetry)
      [] cl.pc = "sleep" -> 2 * (RETRY_maxRetries - cl.currentRetry) + 1
      [] OTHER -> 0

\* C16: every call of checkSupabaseConnection returns, and returns a boolean,
\* whatever the probes do: a call in progress can always take its next step, each
\* step brings it nearer to its return (at most maxRetries attempts), and a call
\* that has returned has returned true or false, never thrown.
C16_AlwaysResolvesToBoolean ==
    /\ [](\A c \in Callers :
            /\ call[c].result \in {"none", "true", "false"}
            /\ call[c].pc # "idle" => call[c].currentRetry < RETRY_maxRetries
            /\ call[c].pc = "internet" => ENABLED CallInternet(c)
            /\ call[c].pc = "backend" =>
                   \E o \in RequestOutcomes(backend) : ENABLED CallBackend(c, o)
            /\ call[c].pc = "sleep" => ENABLED CallWake(c))
    /\ [][\A c \in Callers :
             (call[c].pc # "idle" /\ call'[c] # call[c])
             => Remaining(call'[c]) < Remaining(call[c])
         ]_vars
\* A call has returned false after every one of its maxRetries attempts failed.
C16_Witness ==
    \E c \in Callers :
        /\ call[c].pc = "idle" /\ call[c].probed
        /\ call[c].currentRetry = RETRY_maxRetries
        /\ call[c].result = "false"

\* ---- C17 (SpecWrites) ----
\* The check of caller c returned in its synchronous part, from the debounced
\* status or the offline flags, without probing.
ServedFromStatus(c) == call[c].pc = "idle" /\ call[c].now # 0 /\ ~call[c].probed

\* C17: the connection check of addConsentimiento and of archivarConsentimiento,
\* made while the backend is unreachable, does not answer "connected"; and when the
\* backend is unreachable and the check has been answered from the debounced
\* status, the call fails with the connectivity error: no request is issued and the
\* collections are not touched.
C17_WritesFailFastWhenDown ==
    [][/\ (AddCall /\ backend = "down") => call'[AddCaller].result # "true"
       /\ \A id \in Ids :
             (ArchiveCall(id) /\ backend = "down") => call'[ArchCaller].result # "true"
       /\ (ArchiveChecked(TRUE) /\ backend = "down" /\ ServedFromStatus(ArchCaller))
          => /\ arch'.result = "not-connected"
             /\ UNCHANGED <<consentimientos, consentimientosArchivados>>
       /\ (AddChecked /\ backend = "down" /\ ServedFromStatus(AddCaller))
          => add'.result = "not-connected"
      ]_vars

\* ---- C18 (SpecWrites) ----
\* C18: at the step at which addConsentimiento returns the new record, that record
\* is the first element of the in-memory active collection and the cached active
\* collection equals the in-memory active collection.
C18_CreateReturnsAfterLocalUpdate ==
    [][(add.pc = "insert" /\ add'.result = "ok")
          => /\ consentimientos' # <<>>
             /\ Head(consentimientos') = add'.id
             /\ CachedActive' = Arr(consentimientos')
      ]_vars

\* ---- C19 (SpecWrites) ----
\* C19: in every reachable state no record id is in both the in-memory active
\* collection and the in-memory archived collection.
C19_ActiveArchivedDisjoint ==
    \A id \in 1..(MaxRecords + MaxCreated) :
        ~(Has(consentimientos, id) /\ Has(consentimientosArchivados, id))

\* ---- C20 (SpecWrites) ----
\* C20: once archivarConsentimiento(id) has moved a record to the archived
\* collection, no later step puts that record back into the active collection.
Moved(id) ==
    /\ arch.id = id /\ arch.pc # "check"
    /\ Has(consentimientosArchivados, id) /\ ~Has(consentimientos, id)
C20_ArchivedNeverReturns ==
    [][\A id \in Ids : Moved(id) => ~Has(consentimientos', id)]_vars

\* ---- C21 (SpecCache) ----
\* C21: a getCachedData(key) that finds the entry stored under key expired or
\* malformed returns null and leaves no entry for key in the in-process Map nor in
\* localStorage.
StaleEntry(key) ==
    \/ getBranch(dataCache, localStorage, now, key) = "expired"
    \/ /\ getBranch(dataCache, localStorage, now, key) = "miss"
       /\ localStorage.cache[key].kind # "none"
C21_StaleReadPurges ==
    [][\A key \in Keys :
          (CacheGet(key) /\ StaleEntry(key))
             => /\ ret'.result = Null
                /\ dataCache'[key] = NoItem
                /\ localStorage'.cache[key] = NoItem
      ]_vars

\* ---- C22 (SpecSub) ----
\* C22: a status callback with a disconnected status schedules exactly one reconnect
\* probe, due 30 s later; a reconnect probe invokes the callback exactly once when
\* it reports connected and not at all otherwise; and after unsubscribe() no
\* reconnect probe invokes the callback.
C22_ReconnectProbeOncePerDrop ==
    [][/\ \A status \in {"CLOSED", "OFFLINE"} :
             SubStatus(status) => sub'.timers = Append(sub.timers, sub.t + RECONNECT_DELAY)
       /\ \A isConnected \in BOOLEAN :
             SubProbe(isConnected)
                => sub'.calls = sub.calls + (IF isConnected THEN 1 ELSE 0)
       /\ sub.phase = "cancelled" => sub'.calls = sub.calls
      ]_vars

\* ---- C23 (SpecConn) ----
\* C23: a call of checkSupabaseConnection that returns false from the backend stage
\* has made RETRY_maxRetries failed attempts and leaves app_network_unreachable
\* set; an attempt that succeeds returns true.
C23_FalseOnlyAfterAllAttempts ==
    [][\A c \in Callers :
          /\ (call[c].pc \in {"backend", "sleep"} /\ call'[c].pc = "idle"
                  /\ call'[c].result = "false")
                => /\ call'[c].currentRetry = RETRY_maxRetries
                   /\ localStorage'.app_network_unreachable
          /\ CallBackend(c, "ok") => call'[c].result = "true"
      ]_vars

\* ---- C24 (SpecProbeWait) ----
\* C24, as the code has it: the k-th wait of the retry loop (k = 1, 2, ...) is at
\* least min(maxDelay, initialDelay * 2^k), never exceeds maxDelay, is not smaller
\* than the delay before it, and below the cap lies between 2 and 2.3 times the
\* delay before it: the first wait lies between 4000 and 4600 ms.
C24_WaitDoublesPlusJitter ==
    delays.realized # <<>> =>
        LET prev == delays.realized[1]
            wait == delays.realized[2]
            k == delays.attempt
        IN  /\ wait <= RETRY_maxDelay
            /\ wait >= prev
            /\ wait >= (IF RETRY_initialDelay * 2^k < RETRY_maxDelay
                        THEN RETRY_initialDelay * 2^k ELSE RETRY_maxDelay)
            /\ wait < RETRY_maxDelay
                  => /\ wait >= RETRY_factor * prev
                     /\ 10 * wait <= 23 * prev
            /\ k = 1 => (wait >= 4000 /\ wait <= 4600)
\* The third wait, below the cap, more than 30% above initialDelay * 2^3.
C24_Witness ==
    /\ delays.attempt = 3
    /\ delays.realized # <<>>
    /\ delays.realized[2] < RETRY_maxDelay
    /\ 10 * delays.realized[2] > 13 * RETRY_initialDelay * 2^3
\* C24 as stated: no wait exceeds maxDelay, and the k-th wait, where
\* initialDelay * 2^k is below maxDelay, lies within 30% of initialDelay * 2^k.
C24_WaitWithinJitterOfDoubling ==
    delays.realized # <<>> =>
        /\ delays.realized[2] <= RETRY_maxDelay
        /\ RETRY_initialDelay * 2^delays.attempt < RETRY_maxDelay
              => Within30(delays.realized[2], RETRY_initialDelay * 2^delays.attempt)

\* ---- C25 (SpecConn) ----
\* C25: at the step at which a call of checkSupabaseConnection returns true,
\* app_network_unreachable is not set.
C25_TrueImpliesFlagClear ==
    [][\A c \in Callers :
          (call'[c] # call[c] /\ call'[c].pc = "idle" /\ call'[c].result = "true")
             => ~localStorage'.app_network_unreachable
      ]_vars

\* ---- C26 (Spec) ----
\* C26: when a non-manual invocation of loadConsentimientos takes the disconnected
\* branch with retryCount below MAX_RETRIES, retryCount grows by exactly one and
\* exactly one background-retry timer is added; a manual invocation adds none; and
\* the load that follows from that failure does not start while the timer it
\* scheduled is still pending.
C26_BackoffBeforeNextCycle ==
    [][/\ \A k \in Slots :
             (LoadChecked(k) /\ call[k].result # "true")
                => IF cycles[k].manual
                   THEN timers' = timers
                   ELSE retryCount < MAX_RETRIES
                           => /\ retryCount' = retryCount + 1
                              /\ Len(timers') = Len(timers) + 1
       /\ (EffectRun /\ lastEnd.how = "disconnected" /\ timers # <<>>)
             => cycles' = cycles
      ]_vars

\* ---- C27 (Spec) ----
\* C27: retryCount is 0 right after a load that succeeded, after retryConnection and
\* after the online event; and retryCount changes only by growing by one when a
\* background retry is scheduled, or by being reset to 0 by a load that connected,
\* by retryConnection (and the manual load it starts) or by the online event.
C27_RetryCountResets ==
    [][/\ (lastEnd' # lastEnd /\ lastEnd'.how = "ok") => retryCount' = 0
       /\ RetryConnection => retryCount' = 0
       /\ EnvOnline => retryCount' = 0
       /\ retryCount' # retryCount
             => \/ /\ retryCount' = retryCount + 1
                   /\ Len(timers') = Len(timers) + 1
                \/ /\ retryCount' = 0
                   /\ \/ RetryConnection
                      \/ EnvOnline
                      \/ \E k \in Slots :
                            LoadChecked(k) /\ (call[k].result = "true" \/ cycles[k].manual)
      ]_vars

\* ---- C28 (Spec) ----
\* C28: once the render after a load whose fetch timed out or failed on the network
\* has taken effect, and while connectionError holds, a background-retry timer is
\* pending, or the periodic reconnection interval is armed, or a load is in flight.
C28_FetchFailureLeavesRetryPending ==
    (/\ Settled
     /\ connectionError
     /\ lastEnd.how = "error"
     /\ lastEnd.outcome \in {"abort", "fail"})
        => (timers # <<>> \/ effect.interval \/ InFlight # {})

\* ---- C29 (SpecTeardown) ----
\* C29: the unmount leaves no periodic reconnection interval armed, and after it no
\* background-retry timer fires and no invocation of loadConsentimientos starts.
C29_NoLoadAfterTeardown ==
    [][/\ Unmount => ~effect'.interval
       /\ ~effect.mounted => (timers' = timers /\ cycles' = cycles)
      ]_vars

\* ---- C30 (SpecWrites) ----
\* C30: at the step at which a load cycle whose two fetches succeeded publishes its
\* collections, a read of the cache under each collection's key returns the
\* collection that is published.
C30_PublishedEqualsCached ==
    [][\A k \in Slots :
          LoadArchivados(k, "ok", TRUE)
          => /\ CachedActive' = Arr(consentimientos')
             /\ getCachedData(dataCache, localStorage, now,
                              ARCHIVED_CONSENT_CACHE_KEY)' = Arr(consentimientosArchivados')
      ]_vars

\* ---- C31 (SpecRows) ----
\* C31: the mapping of a batch of raw rows returns the rows it can read (those whose
\* client_info is not null), each mapped to its record, in the order of the batch;
\* a row it cannot read is left out, and the rows around it are still returned.
C31_MalformedRowsDropped ==
    rows.pc = "mapped"
        => LET read == SelectSeq(rows.data, LAMBDA r : r.client_info # "null")
           IN  /\ Len(rows.out) = Len(read)
               /\ \A n \in 1..Len(read) : rows.out[n] = read[n].id
\* A batch with an unreadable row between two readable ones has been mapped.
C31_Witness ==
    /\ rows.pc = "mapped"
    /\ Len(rows.data) = 3
    /\ rows.data[1].client_info = "object"
    /\ rows.data[2].client_info = "null"
    /\ rows.data[3].client_info = "object"
    /\ rows.data[1].id # rows.data[3].id
    /\ rows.out = <<rows.data[1].id, rows.data[3].id>>

\* ---- C32 (SpecConn) ----
\* C32: the offline-mode flag, once set, is cleared by toggleOfflineMode(false) only:
\* no step of a connection check clears it, the answer to a backend probe that was
\* in flight when the flag was set included.
C32_OfflineFlagSticky ==
    [][(localStorage.app_offline_mode /\ ~localStorage'.app_offline_mode)
          => ToggleOfflineMode(FALSE)]_vars

\* ---- C33 (Spec) ----
\* C33: at most one background-retry timer of the provider is pending at any time,
\* also when another trigger starts a load cycle while a timer is waiting.
C33_OneRetryTimer == Len(timers) <= 1

\* ---- C34 (SpecOverlap) ----
\* C34: when two calls of archivarConsentimiento on distinct ids, each on a record
\* of the active collection and one started while the other was in progress, have
\* both completed without error, neither record is
\* in the active collection and both are in the archived collection, in memory and
\* in the cache.
C34_OverlappingArchivesBothApply ==
    \A n, m \in 1..MaxOverlap :
        (/\ n \in archs[m].during
         /\ archs[n].id # archs[m].id
         /\ Has(archs[n].activos, archs[n].id) /\ Has(archs[m].activos, archs[m].id)
         /\ archs[n].pc = "done" /\ archs[n].result = "ok"
         /\ archs[m].pc = "done" /\ archs[m].result = "ok")
            => LET cachedActivos == CachedActive
                   cachedArchivados == getCachedData(dataCache, localStorage, now,
                                                     ARCHIVED_CONSENT_CACHE_KEY)
               IN  \A id \in {archs[n].id, archs[m].id} :
                       /\ ~Has(consentimientos, id)
                       /\ Has(consentimientosArchivados, id)
                       /\ ~(cachedActivos.kind = "array" /\ Has(cachedActivos.items, id))
                       /\ cachedArchivados.kind = "array"
                       /\ Has(cachedArchivados.items, id)

\* ---- C35 (SpecOverlap) ----
\* C35: whatever calls of archivarConsentimiento were made, a call on a record that
\* is already archived included, every id occurs at most once in the archived
\* collection, in memory and in the cache.
C35_ArchivedIdsUnique ==
    LET cachedArchivados == getCachedData(dataCache, localStorage, now,
                                          ARCHIVED_CONSENT_CACHE_KEY)
        Once(list) == \A i, j \in 1..Len(list) : list[i] = list[j] => i = j
    IN  /\ Once(consentimientosArchivados)
        /\ cachedArchivados.kind = "array" => Once(cachedArchivados.items)

=============================================================================
